---- MODULE Spec2Model ----
(***************************************************************************)
(* A model of the value/conversion/call-adapter core of magnus (Rust       *)
(* bindings to the Ruby C API).                                            *)
(*                                                                         *)
(* The machine word is scaled down from 64 to WordBits bits so that every  *)
(* word can be enumerated; the host integer types keep their order         *)
(* (i8 < i16 < i32 < fixnum < i64 = isize = c_long = c_longlong) at the    *)
(* scaled widths I8Bits, I16Bits, I32Bits, WordBits-1 and WordBits.        *)
(* All arithmetic that can overflow in the program is reduced modulo the   *)
(* (scaled) width of the type it is done in.                               *)
(***************************************************************************)
EXTENDS Integers, Naturals, Sequences, FiniteSets, TLC

VARIABLES heap, errinfo, pend, inp, val, last, cnt, boxes, global_list, mark_objects,
          builder, cfg, INIT, VALUE, thr, iter

vars == <<heap, errinfo, pend, inp, val, last, cnt, boxes, global_list, mark_objects,
          builder, cfg, INIT, VALUE, thr, iter>>

----------------------------------------------------------------------------
(* Bounds of the model                                                     *)

WordBits == 10
I8Bits == 3
I16Bits == 5
I32Bits == 7
MaxObjs == 2

RECURSIVE Pow2(_)
Pow2(k) == IF k = 0 THEN 1 ELSE 2 * Pow2(k - 1)

WordMod == Pow2(WordBits)
Words == 0 .. (WordMod - 1)

(* the host integers the inputs are drawn from: every i64 and u64 value and *)
(* some integers beyond both, which only the runtime can produce            *)
HostInts == (0 - WordMod - 2) .. (WordMod + 2)

SMin(bits) == 0 - Pow2(bits - 1)
SMax(bits) == Pow2(bits - 1) - 1
UMax(bits) == Pow2(bits) - 1

IntTypes == {"i8", "i16", "i32", "i64", "isize", "u8", "u16", "u32", "u64", "usize"}
SignedTypes == {"i8", "i16", "i32", "i64", "isize"}

BitsOf(ty) ==
    CASE ty \in {"i8", "u8"} -> I8Bits
      [] ty \in {"i16", "u16"} -> I16Bits
      [] ty \in {"i32", "u32"} -> I32Bits
      [] OTHER -> WordBits

TyMin(ty) == IF ty \in SignedTypes THEN SMin(BitsOf(ty)) ELSE 0
TyMax(ty) == IF ty \in SignedTypes THEN SMax(BitsOf(ty)) ELSE UMax(BitsOf(ty))
InTy(n, ty) == n >= TyMin(ty) /\ n <= TyMax(ty)

(* `x as T`: two's-complement truncation to the width of T *)
WrapU(n, bits) == n % Pow2(bits)
WrapS(n, bits) ==
    LET u == n % Pow2(bits)
    IN IF u >= Pow2(bits - 1) THEN u - Pow2(bits) ELSE u
CastTo(n, ty) == IF ty \in SignedTypes THEN WrapS(n, BitsOf(ty)) ELSE WrapU(n, BitsOf(ty))

RECURSIVE BitAnd(_, _, _)
BitAnd(a, b, k) ==
    IF k = 0 THEN 0
    ELSE (a % 2) * (b % 2) + 2 * BitAnd(a \div 2, b \div 2, k - 1)

And(a, b) == BitAnd(a, b, WordBits)
Not(a) == (WordMod - 1) - a

----------------------------------------------------------------------------
(* ruby_special_consts and ruby_value_type, as the program uses them       *)

RUBY_Qfalse == 0
RUBY_Qnil == 8
RUBY_Qtrue == 20
RUBY_Qundef == 52
RUBY_IMMEDIATE_MASK == 7
RUBY_FIXNUM_FLAG == 1
RUBY_FLONUM_MASK == 3
RUBY_FLONUM_FLAG == 2
RUBY_SYMBOL_FLAG == 12
RUBY_SPECIAL_SHIFT == 8

RUBY_T_MASK == 31
RUBY_T_NONE == 0
RUBY_T_OBJECT == 1
RUBY_T_FLOAT == 4
RUBY_T_REGEXP == 6
RUBY_T_ARRAY == 7
RUBY_T_HASH == 8
RUBY_T_STRUCT == 9
RUBY_T_BIGNUM == 10
RUBY_T_MATCH == 13
RUBY_T_COMPLEX == 14
RUBY_T_RATIONAL == 15
RUBY_T_NIL == 17
RUBY_T_TRUE == 18
RUBY_T_FALSE == 19
RUBY_T_SYMBOL == 20
RUBY_T_FIXNUM == 21
RUBY_T_UNDEF == 22
RUBY_FL_FREEZE == 2048
RUBY_FL_USER1 == 8192

QNIL == RUBY_Qnil

NoVal == [w |-> 0 - 1, from |-> "none"]

----------------------------------------------------------------------------
(* Results, errors and runtime outcomes                                    *)

NoErr == [class |-> "none", msg |-> "", via |-> "none", state |-> 0]

(* Error::range_error / Error::new(exception_range_error(), msg) *)
range_error(msg) == [class |-> "RangeError", msg |-> msg, via |-> "error", state |-> 0]
type_error(msg) == [class |-> "TypeError", msg |-> msg, via |-> "error", state |-> 0]

Ok(v) == [ok |-> TRUE, v |-> v, e |-> NoErr]
Err(e) == [ok |-> FALSE, v |-> 0, e |-> e]

(* what a call into the runtime does: complete with a value (tag 0), raise *)
(* an exception (tag 6) or take a non-local jump (another tag)             *)
TAG_NONE == 0
TAG_RAISE == 6
Completes(v) == [tag |-> TAG_NONE, v |-> v, class |-> "none", msg |-> ""]
Raises(class, msg) == [tag |-> TAG_RAISE, v |-> 0, class |-> class, msg |-> msg]
Jumps(tag) == [tag |-> tag, v |-> 0, class |-> "none", msg |-> ""]

NegMsg == "can't convert negative integer to unsigned"

----------------------------------------------------------------------------
(* The tagged word                                                          *)

ToSigned(w) == IF w >= Pow2(WordBits - 1) THEN w - WordMod ELSE w

FIXNUM_MAX == Pow2(WordBits - 2) - 1
FIXNUM_MIN == 0 - Pow2(WordBits - 2)
FIXABLE(n) == n >= FIXNUM_MIN /\ n <= FIXNUM_MAX
LONG2FIX(n) == (2 * n + 1) % WordMod
FIX2LONG(w) == (ToSigned(w) - 1) \div 2

is_immediate(w) ==
    LET immediate_p == And(w, RUBY_IMMEDIATE_MASK) # 0
        test == And(w, Not(RUBY_Qnil)) # 0
    IN immediate_p \/ ~test

is_false(w) == w = RUBY_Qfalse
is_nil(w) == w = RUBY_Qnil
is_true(w) == w = RUBY_Qtrue
is_undef(w) == w = RUBY_Qundef
is_fixnum(w) == And(w, RUBY_FIXNUM_FLAG) # 0
(* mutant: the flag bits are tested without the mask of the special shift *)
is_static_symbol_FlagOnly(w) == And(w, RUBY_SYMBOL_FLAG) = RUBY_SYMBOL_FLAG

is_static_symbol(w) == And(w, UMax(RUBY_SPECIAL_SHIFT)) = RUBY_SYMBOL_FLAG
(* mutant: the flag bit is tested without the mask *)
is_flonum_FlagOnly(w) == And(w, RUBY_FLONUM_FLAG) # 0

is_flonum(w) == And(w, RUBY_FLONUM_MASK) = RUBY_FLONUM_FLAG

(* mutant: the pointer is handed out without the immediate test *)
r_basic_Unchecked(w) == [some |-> TRUE, ptr |-> w]

(* r_basic: the pointer to the object's header, for a reference only *)
r_basic(w) == IF ~is_immediate(w) THEN [some |-> TRUE, ptr |-> w] ELSE [some |-> FALSE, ptr |-> 0]

(* rb_type: the header's tag for a reference, the predicate chain otherwise; *)
(* 0 - 1 stands for reaching unreachable!()                                 *)
rb_type(w, h) ==
    IF r_basic(w).some THEN
        IF r_basic(w).ptr \in DOMAIN h THEN h[r_basic(w).ptr].flags % (RUBY_T_MASK + 1)
        ELSE RUBY_T_NONE
    ELSE IF is_false(w) THEN RUBY_T_FALSE
    ELSE IF is_nil(w) THEN RUBY_T_NIL
    ELSE IF is_true(w) THEN RUBY_T_TRUE
    ELSE IF is_undef(w) THEN RUBY_T_UNDEF
    ELSE IF is_fixnum(w) THEN RUBY_T_FIXNUM
    ELSE IF is_static_symbol(w) THEN RUBY_T_SYMBOL
    ELSE IF is_flonum(w) THEN RUBY_T_FLOAT
    ELSE 0 - 1

----------------------------------------------------------------------------
(* The runtime's integer functions (Ruby C API)                            *)

(* the first aligned word above the special constants *)
HeapBase == 2 * RUBY_Qnil
NextAddr(h) == HeapBase + 8 * Cardinality(DOMAIN h)
Alloc(h, obj) == [a \in (DOMAIN h) \cup {NextAddr(h)} |->
                    IF a = NextAddr(h) THEN obj ELSE h[a]]

BigObj(n) == [flags |-> RUBY_T_BIGNUM + (IF n >= 0 THEN RUBY_FL_USER1 ELSE 0),
              num |-> n, class |-> "Integer"]
ExcObj(class) == [flags |-> RUBY_T_OBJECT, num |-> 0, class |-> class]

(* rb_ll2inum / rb_ull2inum: a fixnum when FIXABLE, a fresh bignum otherwise *)
rb_ll2inum(n, h) ==
    IF FIXABLE(n) THEN [w |-> LONG2FIX(n), h |-> h]
    ELSE [w |-> NextAddr(h), h |-> Alloc(h, BigObj(n))]
rb_ull2inum(n, h) ==
    IF n <= FIXNUM_MAX THEN [w |-> LONG2FIX(n), h |-> h]
    ELSE [w |-> NextAddr(h), h |-> Alloc(h, BigObj(n))]

IsBig(w, h) == rb_type(w, h) = RUBY_T_BIGNUM

(* rb_num2long / rb_num2ll: the value, RangeError for a bignum outside the *)
(* long, TypeError for what is no number                                   *)
rb_num2long(w, h) ==
    IF is_fixnum(w) THEN Completes(FIX2LONG(w))
    ELSE IF IsBig(w, h) THEN
        IF h[w].num >= SMin(WordBits) /\ h[w].num <= SMax(WordBits)
        THEN Completes(h[w].num)
        ELSE Raises("RangeError", "bignum too big to convert into `long'")
    ELSE Raises("TypeError", "no implicit conversion to integer")
rb_num2ll(w, h) == rb_num2long(w, h)

(* rb_num2ulong / rb_num2ull: a negative number wraps, as in C *)
rb_num2ulong(w, h) ==
    IF is_fixnum(w) THEN Completes(FIX2LONG(w) % WordMod)
    ELSE IF IsBig(w, h) THEN
        IF h[w].num >= SMin(WordBits) /\ h[w].num <= UMax(WordBits)
        THEN Completes(h[w].num % WordMod)
        ELSE Raises("RangeError", "bignum out of range of unsigned long")
    ELSE Raises("TypeError", "no implicit conversion to integer")
rb_num2ull(w, h) == rb_num2ulong(w, h)

(* rb_num2short / rb_num2ushort: rb_num2long, then check_short/check_ushort *)
rb_num2short(w, h) ==
    LET l == rb_num2long(w, h)
    IN IF l.tag # TAG_NONE THEN l
       ELSE IF l.v < SMin(I16Bits) \/ l.v > SMax(I16Bits)
       THEN Raises("RangeError", "integer out of range of `short'")
       ELSE l
rb_num2ushort(w, h) ==
    LET l == rb_num2long(w, h)
    IN IF l.tag # TAG_NONE THEN l
       ELSE IF l.v < SMin(I16Bits) \/ l.v > UMax(I16Bits)
       THEN Raises("RangeError", "integer out of range of `unsigned short'")
       ELSE Completes(l.v % Pow2(I16Bits))

----------------------------------------------------------------------------
(* The protected call (crate::error, section 4.3 of the specification)     *)

(* protect(closure): the runtime runs the closure once under its protected *)
(* execution primitive and reports the completion code                     *)
protect(c) == [state |-> c.tag, v |-> c.v, runs |-> 1,
               exc |-> [class |-> c.class, msg |-> c.msg]]

(* the Error a nonzero completion code becomes when `?` propagates it: the *)
(* pending exception for a raise, the jump tag otherwise                   *)
ProtectErr(p) ==
    IF p.state = TAG_RAISE
    THEN [class |-> p.exc.class, msg |-> p.exc.msg, via |-> "exception", state |-> p.state]
    ELSE [class |-> "none", msg |-> "", via |-> "jump", state |-> p.state]

(* let mut res = 0, then protect of a closure that assigns res and yields *)
(* QNIL: the closure's outcome and what res holds afterwards              *)
Closure(call) == IF call.tag = TAG_NONE THEN Completes(QNIL) ELSE call
ResAfter(call) == IF call.tag = TAG_NONE THEN call.v ELSE 0

----------------------------------------------------------------------------
(* Fixnum (src/value.rs)                                                   *)

(* mutant: the fixnum check left out *)
Fixnum_from_value_Unchecked(w) == [some |-> TRUE, w |-> w]

Fixnum_from_value(w) == IF is_fixnum(w) THEN [some |-> TRUE, w |-> w]
                        ELSE [some |-> FALSE, w |-> 0]

RBignum_from_value(w, h) ==
    IF rb_type(w, h) = RUBY_T_BIGNUM THEN [some |-> TRUE, w |-> w]
    ELSE [some |-> FALSE, w |-> 0]

(* Result<Fixnum, RBignum>: ok with the fixnum, or the bignum as the error *)
Fixnum_from_i64(n, h) ==
    LET r == rb_ll2inum(n, h)
        f == Fixnum_from_value(r.w)
    IN [ok |-> f.some, w |-> r.w, h |-> r.h]

Fixnum_from_u64(n, h) ==
    LET r == rb_ull2inum(n, h)
        f == Fixnum_from_value(r.w)
    IN [ok |-> f.some, w |-> r.w, h |-> r.h]

(* Result<RBignum, Fixnum> *)
bignum_from_i64(n, h) ==
    LET r == rb_ll2inum(n, h)
        b == RBignum_from_value(r.w, r.h)
    IN [ok |-> b.some, w |-> r.w, h |-> r.h]

bignum_from_u64(n, h) ==
    LET r == rb_ull2inum(n, h)
        b == RBignum_from_value(r.w, r.h)
    IN [ok |-> b.some, w |-> r.w, h |-> r.h]

(* mutant: the sign is never seen *)
Fixnum_is_negative_Never(w) == FALSE

Fixnum_is_negative(w) == ToSigned(w) < 0

Fixnum_to_i8(w, h) ==
    LET call == rb_num2long(w, h)
        p == protect(Closure(call))
        res == ResAfter(call)
    IN IF p.state # 0 THEN Err(ProtectErr(p))
       ELSE IF res > TyMax("i8") \/ res < TyMin("i8")
       THEN Err(range_error("fixnum too big to convert into i8"))
       ELSE Ok(CastTo(res, "i8"))

Fixnum_to_i16(w, h) ==
    LET call == rb_num2short(w, h)
        p == protect(Closure(call))
        res == ResAfter(call)
    IN IF p.state # 0 THEN Err(ProtectErr(p))
       ELSE Ok(res)

(* mutant: only the upper bound is checked *)
Fixnum_to_i32_UpperOnly(w, h) ==
    LET call == rb_num2long(w, h)
        p == protect(Closure(call))
        res == ResAfter(call)
    IN IF p.state # 0 THEN Err(ProtectErr(p))
       ELSE IF res > TyMax("i32")
       THEN Err(range_error("fixnum too big to convert into i32"))
       ELSE Ok(CastTo(res, "i32"))

Fixnum_to_i32(w, h) ==
    LET call == rb_num2long(w, h)
        p == protect(Closure(call))
        res == ResAfter(call)
    IN IF p.state # 0 THEN Err(ProtectErr(p))
       ELSE IF res > TyMax("i32") \/ res < TyMin("i32")
       THEN Err(range_error("fixnum too big to convert into i32"))
       ELSE Ok(CastTo(res, "i32"))

Fixnum_to_i64(w, h) == Ok(rb_num2ll(w, h).v)

Fixnum_to_isize(w, h) ==
    LET call == rb_num2ll(w, h)
        p == protect(Closure(call))
        res == ResAfter(call)
    IN IF p.state # 0 THEN Err(ProtectErr(p))
       ELSE Ok(CastTo(res, "isize"))

Fixnum_to_u8(w, h) ==
    IF Fixnum_is_negative(w) THEN Err(range_error(NegMsg))
    ELSE LET call == rb_num2ulong(w, h)
             p == protect(Closure(call))
             res == ResAfter(call)
         IN IF p.state # 0 THEN Err(ProtectErr(p))
            ELSE IF res > TyMax("u8")
            THEN Err(range_error("fixnum too big to convert into u8"))
            ELSE Ok(CastTo(res, "u8"))

Fixnum_to_u16(w, h) ==
    IF Fixnum_is_negative(w) THEN Err(range_error(NegMsg))
    ELSE LET call == rb_num2ushort(w, h)
             p == protect(Closure(call))
             res == ResAfter(call)
         IN IF p.state # 0 THEN Err(ProtectErr(p))
            ELSE Ok(res)

Fixnum_to_u32(w, h) ==
    IF Fixnum_is_negative(w) THEN Err(range_error(NegMsg))
    ELSE LET call == rb_num2ulong(w, h)
             p == protect(Closure(call))
             res == ResAfter(call)
         IN IF p.state # 0 THEN Err(ProtectErr(p))
            ELSE IF res > TyMax("u32")
            THEN Err(range_error("fixnum too big to convert into u32"))
            ELSE Ok(CastTo(res, "u32"))

Fixnum_to_u64(w, h) ==
    IF Fixnum_is_negative(w) THEN Err(range_error(NegMsg))
    ELSE LET call == rb_num2ull(w, h)
             p == protect(Closure(call))
             res == ResAfter(call)
         IN IF p.state # 0 THEN Err(ProtectErr(p))
            ELSE Ok(res)

Fixnum_to_usize(w, h) ==
    IF Fixnum_is_negative(w) THEN Err(range_error(NegMsg))
    ELSE LET call == rb_num2ull(w, h)
             p == protect(Closure(call))
             res == ResAfter(call)
         IN IF p.state # 0 THEN Err(ProtectErr(p))
            ELSE Ok(CastTo(res, "usize"))

Fixnum_to(ty, w, h) ==
    CASE ty = "i8" -> Fixnum_to_i8(w, h)
      [] ty = "i16" -> Fixnum_to_i16(w, h)
      [] ty = "i32" -> Fixnum_to_i32(w, h)
      [] ty = "i64" -> Fixnum_to_i64(w, h)
      [] ty = "isize" -> Fixnum_to_isize(w, h)
      [] ty = "u8" -> Fixnum_to_u8(w, h)
      [] ty = "u16" -> Fixnum_to_u16(w, h)
      [] ty = "u32" -> Fixnum_to_u32(w, h)
      [] ty = "u64" -> Fixnum_to_u64(w, h)
      [] OTHER -> Fixnum_to_usize(w, h)

----------------------------------------------------------------------------
(* RBignum (src/r_bignum.rs)                                               *)

(* flags & RUBY_FL_USER1 (the header's flag word is not scaled) *)
RBignum_sign(w, h) == ((h[w].flags \div RUBY_FL_USER1) % 2) * RUBY_FL_USER1
RBignum_is_positive(w, h) == RBignum_sign(w, h) # 0
RBignum_is_negative(w, h) == ~RBignum_is_positive(w, h)

RBignum_to_i32(w, h) ==
    LET call == rb_num2long(w, h)
        p == protect(Closure(call))
        res == ResAfter(call)
    IN IF p.state # 0 THEN Err(ProtectErr(p))
       ELSE IF res > TyMax("i32")
       THEN Err(range_error("bignum too big to convert into i32"))
       ELSE Ok(CastTo(res, "i32"))

RBignum_to_i64(w, h) ==
    LET call == rb_num2ll(w, h)
        p == protect(Closure(call))
        res == ResAfter(call)
    IN IF p.state # 0 THEN Err(ProtectErr(p)) ELSE Ok(res)

RBignum_to_isize(w, h) ==
    LET call == rb_num2ll(w, h)
        p == protect(Closure(call))
        res == ResAfter(call)
    IN IF p.state # 0 THEN Err(ProtectErr(p))
       ELSE IF res > TyMax("isize")
       THEN Err(range_error("bignum too big to convert into isize"))
       ELSE Ok(CastTo(res, "isize"))

RBignum_to_u32(w, h) ==
    IF RBignum_is_negative(w, h) THEN Err(range_error(NegMsg))
    ELSE LET call == rb_num2ulong(w, h)
             p == protect(Closure(call))
             res == ResAfter(call)
         IN IF p.state # 0 THEN Err(ProtectErr(p))
            ELSE IF res > TyMax("u32")
            THEN Err(range_error("bignum too big to convert into u32"))
            ELSE Ok(CastTo(res, "u32"))

RBignum_to_u64(w, h) ==
    IF RBignum_is_negative(w, h) THEN Err(range_error(NegMsg))
    ELSE LET call == rb_num2ull(w, h)
             p == protect(Closure(call))
             res == ResAfter(call)
         IN IF p.state # 0 THEN Err(ProtectErr(p)) ELSE Ok(res)

RBignum_to_usize(w, h) ==
    IF RBignum_is_negative(w, h) THEN Err(range_error(NegMsg))
    ELSE LET call == rb_num2ull(w, h)
             p == protect(Closure(call))
             res == ResAfter(call)
         IN IF p.state # 0 THEN Err(ProtectErr(p))
            ELSE IF res > TyMax("usize")
            THEN Err(range_error("bignum too big to convert into usize"))
            ELSE Ok(CastTo(res, "usize"))

----------------------------------------------------------------------------
(* Integer (src/integer.rs) and the integer conversions                    *)

Integer_from_value(w, h) ==
    IF And(w, RUBY_FIXNUM_FLAG) # 0 THEN [some |-> TRUE, w |-> w]
    ELSE IF is_immediate(w) THEN [some |-> FALSE, w |-> 0]
    ELSE IF rb_type(w, h) = RUBY_T_BIGNUM THEN [some |-> TRUE, w |-> w]
    ELSE [some |-> FALSE, w |-> 0]

Integer_from_i64(n, h) == rb_ll2inum(n, h)
Integer_from_u64(n, h) == rb_ull2inum(n, h)

(* mutant: the protected call's result is dropped *)
Integer_to_i64_Unchecked(w, h) ==
    LET call == rb_num2ll(w, h)
        p == protect(Closure(call))
        res == ResAfter(call)
    IN Ok(res)

Integer_to_i64(w, h) ==
    LET call == rb_num2ll(w, h)
        p == protect(Closure(call))
        res == ResAfter(call)
    IN IF p.state # 0 THEN Err(ProtectErr(p)) ELSE Ok(res)

Integer_to_u64(w, h) ==
    LET call == rb_num2ull(w, h)
        p == protect(Closure(call))
        res == ResAfter(call)
    IN IF p.state # 0 THEN Err(ProtectErr(p)) ELSE Ok(res)

(* Integer::try_convert: an Integer for a fixnum or a bignum, a type error *)
(* for anything else                                                       *)
Integer_try_convert(w, h) ==
    IF Integer_from_value(w, h).some THEN Ok(w)
    ELSE Err(type_error("no implicit conversion into Integer"))

(* Integer::to_i8 .. to_usize: routed to the extractor of the small        *)
(* integer or of the big integer, whose error is returned unchanged        *)
Integer_narrow(ty, w, h) ==
    IF is_fixnum(w) THEN Fixnum_to(ty, w, h)
    ELSE CASE ty = "i32" -> RBignum_to_i32(w, h)
           [] ty = "isize" -> RBignum_to_isize(w, h)
           [] ty = "u32" -> RBignum_to_u32(w, h)
           [] ty = "usize" -> RBignum_to_usize(w, h)
           [] OTHER -> Err(range_error("bignum too big to convert"))

Integer_to(ty, w, h) ==
    CASE ty = "i64" -> Integer_to_i64(w, h)
      [] ty = "u64" -> Integer_to_u64(w, h)
      [] OTHER -> Integer_narrow(ty, w, h)

(* mutant: every type goes through the signed constructor *)
Value_from_Signed(ty, n, h) == Integer_from_i64(CastTo(n, "i64"), h)

(* impl From<i8 .. usize> for Value *)
Value_from(ty, n, h) ==
    IF ty \in SignedTypes THEN Integer_from_i64(CastTo(n, "i64"), h)
    ELSE Integer_from_u64(CastTo(n, "u64"), h)

(* impl TryConvert for i8 .. usize *)
int_try_convert(ty, w, h) ==
    LET i == Integer_try_convert(w, h)
    IN IF ~i.ok THEN i ELSE Integer_to(ty, i.v, h)

(* impl TryConvert for Option<T>, T one of the integer types *)
None == [some |-> FALSE, x |-> 0]
Some(x) == [some |-> TRUE, x |-> x]
Option_try_convert(ty, w, h) ==
    IF is_nil(w)
    THEN LET r == int_try_convert(ty, w, h)
         IN IF r.ok THEN Ok(Some(r.v)) ELSE r
    ELSE Ok(None)

----------------------------------------------------------------------------
(* The state shared by the specifications, at rest                         *)

NoPend == [state |-> 0]
NoLast == [op |-> "none"]
NoCnt == [captured |-> 0, cleared |-> 0, calls |-> 0]
NoHeap == [a \in {} |-> 0]

(* no BoxValue exists and nothing is registered with the collector *)
NoRoots == boxes = {} /\ global_list = <<>> /\ mark_objects = <<>>

(* no memoize! site has run: its Once is new and its static holds None *)
NoMemo == INIT = "incomplete" /\ VALUE = None /\ thr = <<>>

(* no hash is being enumerated *)
NoIter == iter = [state |-> "none"]

(* no DataTypeBuilder exists; the crate is built for a runtime with compaction *)
(* and flonums                                                                *)
NoBuilder == [name |-> "none"]
NoBuild == builder = NoBuilder /\ cfg = [ruby_gte_2_7 |-> TRUE, ruby_use_flonum |-> TRUE]

----------------------------------------------------------------------------
(* NumSpec: the integer conversions applied to drawn inputs                *)

NumInit ==
    /\ inp \in HostInts
    /\ val = NoVal
    /\ heap = NoHeap
    /\ errinfo = QNIL
    /\ pend = NoPend
    /\ last = NoLast
    /\ cnt = NoCnt
    /\ NoRoots
    /\ NoMemo
    /\ NoIter
    /\ NoBuild

Fresh == val = NoVal /\ last.op = "none"
CanAlloc == Cardinality(DOMAIN heap) < MaxObjs

(* host code turns inp, a value of type ty, into a Value *)
IntoValue(ty) ==
    /\ Fresh /\ CanAlloc
    /\ InTy(inp, ty)
    /\ LET r == Value_from(ty, inp, heap)
       IN /\ val' = [w |-> r.w, from |-> ty]
          /\ heap' = r.h
    /\ UNCHANGED <<INIT, VALUE, thr, iter, builder, cfg, boxes, global_list, mark_objects, errinfo, pend, inp, last, cnt>>

(* the runtime hands over the Integer inp (for example from eval) *)
RuntimeInteger ==
    /\ Fresh /\ CanAlloc
    /\ LET r == IF FIXABLE(inp) THEN [w |-> LONG2FIX(inp), h |-> heap]
                ELSE [w |-> NextAddr(heap), h |-> Alloc(heap, BigObj(inp))]
       IN /\ val' = [w |-> r.w, from |-> "ruby"]
          /\ heap' = r.h
    /\ UNCHANGED <<INIT, VALUE, thr, iter, builder, cfg, boxes, global_list, mark_objects, errinfo, pend, inp, last, cnt>>

(* the runtime hands over nil, true or false (no host integer is involved: *)
(* taken once, at inp = 0)                                                 *)
RuntimeSpecial ==
    /\ Fresh
    /\ inp = 0
    /\ \E w \in {RUBY_Qnil, RUBY_Qtrue, RUBY_Qfalse} : val' = [w |-> w, from |-> "special"]
    /\ UNCHANGED <<INIT, VALUE, thr, iter, builder, cfg, boxes, global_list, mark_objects, heap, errinfo, pend, inp, last, cnt>>

HaveVal == val # NoVal /\ last.op = "none"

(* T::try_convert(val) for an integer type T *)
TryConvertInt(ty) ==
    /\ HaveVal
    /\ val.from \in {ty, "ruby", "special"}
    /\ last' = [op |-> "try_convert", ty |-> ty, res |-> int_try_convert(ty, val.w, heap)]
    /\ UNCHANGED <<INIT, VALUE, thr, iter, builder, cfg, boxes, global_list, mark_objects, heap, errinfo, pend, inp, val, cnt>>

(* Option<T>::try_convert(val) *)
TryConvertOption(ty) ==
    /\ HaveVal
    /\ val.from \in {"ruby", "special"}
    /\ ty \in {"i64", "u8"}
    /\ last' = [op |-> "option_try_convert", ty |-> ty,
                res |-> Option_try_convert(ty, val.w, heap)]
    /\ UNCHANGED <<INIT, VALUE, thr, iter, builder, cfg, boxes, global_list, mark_objects, heap, errinfo, pend, inp, val, cnt>>

(* Fixnum::to_i8 .. to_usize on a Fixnum *)
FixnumTo(ty) ==
    /\ HaveVal
    /\ val.from = "ruby"
    /\ Fixnum_from_value(val.w).some
    /\ last' = [op |-> "fixnum_to", ty |-> ty, res |-> Fixnum_to(ty, val.w, heap)]
    /\ UNCHANGED <<INIT, VALUE, thr, iter, builder, cfg, boxes, global_list, mark_objects, heap, errinfo, pend, inp, val, cnt>>

(* Fixnum::from_i64 / from_u64 and RBignum::from_i64 / from_u64 *)
FromHost(f) ==
    /\ Fresh /\ CanAlloc
    /\ InTy(inp, IF f \in {"Fixnum_from_i64", "RBignum_from_i64"} THEN "i64" ELSE "u64")
    /\ LET r == CASE f = "Fixnum_from_i64" -> Fixnum_from_i64(inp, heap)
                  [] f = "Fixnum_from_u64" -> Fixnum_from_u64(inp, heap)
                  [] f = "RBignum_from_i64" -> bignum_from_i64(inp, heap)
                  [] OTHER -> bignum_from_u64(inp, heap)
       IN /\ last' = [op |-> f, ok |-> r.ok, w |-> r.w]
          /\ heap' = r.h
    /\ UNCHANGED <<INIT, VALUE, thr, iter, builder, cfg, boxes, global_list, mark_objects, errinfo, pend, inp, val, cnt>>

(* RBignum::to_i32 on an RBignum *)
RBignumToI32 ==
    /\ HaveVal
    /\ val.from = "ruby"
    /\ RBignum_from_value(val.w, heap).some
    /\ last' = [op |-> "bignum_to_i32", ty |-> "i32", res |-> RBignum_to_i32(val.w, heap)]
    /\ UNCHANGED <<INIT, VALUE, thr, iter, builder, cfg, boxes, global_list, mark_objects, heap, errinfo, pend, inp, val, cnt>>

NumNext ==
    \/ RBignumToI32
    \/ \E ty \in IntTypes : IntoValue(ty)
    \/ RuntimeInteger
    \/ RuntimeSpecial
    \/ \E ty \in IntTypes : TryConvertInt(ty)
    \/ \E ty \in IntTypes : TryConvertOption(ty)
    \/ \E ty \in IntTypes : FixnumTo(ty)
    \/ \E f \in {"Fixnum_from_i64", "Fixnum_from_u64", "RBignum_from_i64", "RBignum_from_u64"} :
          FromHost(f)

NumSpec == NumInit /\ [][NumNext]_vars

----------------------------------------------------------------------------
(* Properties of the integer conversions (NumSpec)                         *)

UnsignedTypes == IntTypes \ SignedTypes
IsRangeError(e) == e.class = "RangeError"

(* C5: Option<T>::try_convert(v) is Ok(None) for nil and, for any other v, *)
(* what T::try_convert(v) gives: Ok(Some(x)) for Ok(x), its error          *)
(* otherwise (nil gives Ok(None), the fixnum 42 gives Ok(Some(42)))        *)
C5_OptionOfNilIsNone ==
    last.op = "option_try_convert" =>
        IF is_nil(val.w)
        THEN last.res.ok /\ last.res.v = None
        ELSE LET r == int_try_convert(last.ty, val.w, heap)
             IN IF r.ok THEN last.res.ok /\ last.res.v = Some(r.v)
                ELSE ~last.res.ok /\ last.res.e = r.e

(* C23: RBignum::to_i32 is Ok(v) only for a big integer whose value v lies *)
(* in the i32 range, and a range error for every value outside it, above  *)
(* or below; where the word is wider than an i32 it always fails and      *)
(* never gives a truncated value                                          *)
C23_BignumToI32Checked ==
    last.op = "bignum_to_i32" =>
        /\ last.res.ok => InTy(inp, "i32") /\ last.res.v = inp
        /\ ~InTy(inp, "i32") => ~last.res.ok /\ IsRangeError(last.res.e)

(* the part of C23 the code keeps: a big integer above the i32 range is a *)
(* range error                                                            *)
C23_UpperBoundChecked ==
    last.op = "bignum_to_i32" /\ inp > TyMax("i32") =>
        ~last.res.ok /\ IsRangeError(last.res.e)

(* a negative big integer comes back Ok, cut to the width of an i32 *)
C23_Truncated ==
    /\ last.op = "bignum_to_i32"
    /\ inp = SMin(WordBits - 1) - 1
    /\ last.res.ok
    /\ last.res.v = CastTo(inp, "i32")
    /\ last.res.v # inp

(* C7: Fixnum::from_i64(n) and from_u64(n) are Ok, with a fixnum encoding  *)
(* exactly n, iff -2^(w-2) <= n <= 2^(w-2)-1 for the word width w, and     *)
(* otherwise Err with a bignum holding n; RBignum::from_i64(n) is Ok       *)
(* exactly when Fixnum::from_i64(n) is Err                                 *)
InSmallRange(n) == n >= 0 - Pow2(WordBits - 2) /\ n <= Pow2(WordBits - 2) - 1

C7_FixnumFromHost ==
    /\ last.op \in {"Fixnum_from_i64", "Fixnum_from_u64"} =>
          /\ last.ok <=> InSmallRange(inp)
          /\ last.ok => /\ last.w % 2 = 1
                        /\ (ToSigned(last.w) - 1) = 2 * inp
          /\ ~last.ok => /\ last.w \in DOMAIN heap
                         /\ last.w % 8 = 0
                         /\ heap[last.w].flags % 32 = RUBY_T_BIGNUM
                         /\ heap[last.w].num = inp
    /\ last.op = "RBignum_from_i64" =>
          (last.ok <=> ~Fixnum_from_i64(inp, NoHeap).ok)

C7_Witness ==
    /\ last.op = "Fixnum_from_i64"
    /\ inp = Pow2(WordBits - 2)
    /\ ~last.ok

(* C8: for every integer type T and every x of T, T::try_convert of the    *)
(* Value made from x is Ok(x), for a fixnum and for a bignum               *)
C8_RoundTrip ==
    (last.op = "try_convert" /\ val.from = last.ty) =>
        last.res.ok /\ last.res.v = inp

C8_Witness ==
    /\ last.op = "try_convert"
    /\ val.from = "u64" /\ last.ty = "u64"
    /\ ~is_immediate(val.w)
    /\ inp > Pow2(WordBits - 1)
    /\ last.res.ok

(* C9: Fixnum::to_u8 .. to_usize of a negative fixnum give the range error *)
(* "can't convert negative integer to unsigned", raised by the function    *)
(* itself and not by a runtime call, and never a wrapped value             *)
C9_NegativeToUnsigned ==
    (last.op = "fixnum_to" /\ last.ty \in UnsignedTypes /\ inp < 0) =>
        /\ ~last.res.ok
        /\ last.res.e = range_error("can't convert negative integer to unsigned")

C9_Witness ==
    /\ last.op = "fixnum_to" /\ last.ty = "u8"
    /\ inp = 0 - 1
    /\ ~last.res.ok

(* C10: Fixnum::to_i8, to_i16 and to_i32 give Ok(n) when n is in the range *)
(* of the target and a range error, not a type error, when n is below or   *)
(* above it                                                                *)
C10_SignedNarrowing ==
    (last.op = "fixnum_to" /\ last.ty \in {"i8", "i16", "i32"}) =>
        IF InTy(inp, last.ty)
        THEN last.res.ok /\ last.res.v = inp
        ELSE ~last.res.ok /\ IsRangeError(last.res.e)

C10_Witness ==
    /\ last.op = "fixnum_to" /\ last.ty = "i32"
    /\ inp = TyMin("i32") - 1
    /\ ~last.res.ok

----------------------------------------------------------------------------
(* ProtSpec: protected calls, eval and the pending-exception slot          *)

MaxCalls == 3

(* the runtime's side of a protected execution: a raise leaves its         *)
(* exception in the pending-exception slot, a completion or a non-local    *)
(* jump leaves the slot as it is                                           *)
ExcAddr(class, h) == CHOOSE a \in DOMAIN h : h[a].class = class
RunProtected(c, slot, h) == IF c.tag = TAG_RAISE THEN ExcAddr(c.class, h) ELSE slot

(* ExceptionalState::into_exception: the pending exception, and the slot   *)
(* cleared                                                                 *)
into_exception(slot) == [exc |-> slot, slot |-> QNIL]

Exception(ex, h) == [class |-> h[ex].class, msg |-> "", via |-> "exception", state |-> TAG_RAISE]
Jump(state) == [class |-> "none", msg |-> "", via |-> "jump", state |-> state]
script_error == [class |-> "ScriptError", msg |-> "nul byte", via |-> "error", state |-> 0]

(* T::try_convert for the result types eval is used with *)
EvalConvert(ty, w, h) == IF ty = "Value" THEN Ok(w) ELSE int_try_convert(ty, w, h)

(* mutant: the slot is read and not cleared *)
eval_SlotKept(nul, c, ty, slot, h) ==
    IF nul THEN [res |-> Err(script_error), slot |-> slot, ran |-> FALSE, exc |-> QNIL]
    ELSE LET slot1 == RunProtected(c, slot, h)
             state == c.tag
         IN CASE state = 0 ->
                   [res |-> EvalConvert(ty, c.v, h), slot |-> slot1, ran |-> TRUE, exc |-> QNIL]
              [] state = 6 ->
                   [res |-> Err(Exception(slot1, h)), slot |-> slot1, ran |-> TRUE, exc |-> slot1]
              [] OTHER ->
                   [res |-> Err(Jump(state)), slot |-> slot1, ran |-> TRUE, exc |-> QNIL]

(* mutant: only the raise state is an error *)
eval_RaiseOnly(nul, c, ty, slot, h) ==
    IF nul THEN [res |-> Err(script_error), slot |-> slot, ran |-> FALSE, exc |-> QNIL]
    ELSE LET slot1 == RunProtected(c, slot, h)
             state == c.tag
         IN CASE state = 6 ->
                   [res |-> Err(Exception(slot1, h)), slot |-> QNIL, ran |-> TRUE, exc |-> slot1]
              [] OTHER ->
                   [res |-> EvalConvert(ty, c.v, h), slot |-> slot1, ran |-> TRUE, exc |-> QNIL]

(* eval::<T>(s): nul says whether s holds a NUL byte, c is what evaluating *)
(* s does in the runtime                                                   *)
eval(nul, c, ty, slot, h) ==
    IF nul THEN [res |-> Err(script_error), slot |-> slot, ran |-> FALSE, exc |-> QNIL]
    ELSE LET slot1 == RunProtected(c, slot, h)
             state == c.tag
         IN CASE state = 0 ->
                   [res |-> EvalConvert(ty, c.v, h), slot |-> slot1, ran |-> TRUE, exc |-> QNIL]
              [] state = 6 ->
                   [res |-> Err(Exception(slot1, h)), slot |-> QNIL, ran |-> TRUE, exc |-> slot1]
              [] OTHER ->
                   [res |-> Err(Jump(state)), slot |-> slot1, ran |-> TRUE, exc |-> QNIL]

ExcClasses == {"RuntimeError", "RangeError", "TypeError"}
JumpTags == {1, 2, 3, 4, 5, 7, 8}
Outcomes ==
    {Completes(QNIL), Completes(LONG2FIX(3))}
    \cup {Raises(cl, "") : cl \in ExcClasses}
    \cup {Jumps(t) : t \in JumpTags}

(* the heap of ProtSpec: the exception objects the runtime raises, a       *)
(* bignum inside the long and one outside it                               *)
ProtHeap ==
    Alloc(Alloc(Alloc(Alloc(Alloc(NoHeap,
        ExcObj("RuntimeError")), ExcObj("RangeError")), ExcObj("TypeError")),
        BigObj(FIXNUM_MAX + 1)), BigObj(SMax(WordBits) + 1))

IntegerWords == {LONG2FIX(0), LONG2FIX(0 - 1), LONG2FIX(SMax(I16Bits)), LONG2FIX(SMax(I16Bits) + 1)}
                \cup {a \in DOMAIN ProtHeap : IsBig(a, ProtHeap)}

ProtInit ==
    /\ inp = 0
    /\ val = NoVal
    /\ heap = ProtHeap
    /\ errinfo = QNIL
    /\ pend = NoPend
    /\ last = NoLast
    /\ cnt = NoCnt
    /\ NoRoots
    /\ NoMemo
    /\ NoIter
    /\ NoBuild

CanCall == pend = NoPend /\ cnt.calls < MaxCalls

Captured(state) == IF state = TAG_RAISE THEN 1 ELSE 0

(* host code calls protect with a closure that does c *)
Protect(c) ==
    /\ CanCall
    /\ LET p == protect(c)
       IN /\ errinfo' = RunProtected(c, errinfo, heap)
          /\ pend' = IF p.state = 0 THEN NoPend ELSE [state |-> p.state]
          /\ last' = [op |-> "protect", c |-> c, ok |-> (p.state = 0), v |-> p.v,
                      state |-> p.state, runs |-> p.runs, slot0 |-> errinfo]
          /\ cnt' = [cnt EXCEPT !.calls = @ + 1, !.captured = @ + Captured(p.state)]
    /\ UNCHANGED <<INIT, VALUE, thr, iter, builder, cfg, boxes, global_list, mark_objects, heap, inp, val>>

(* host code turns the captured raise into an exception value *)
IntoException ==
    /\ pend.state = TAG_RAISE
    /\ LET r == into_exception(errinfo)
       IN /\ errinfo' = r.slot
          /\ last' = [op |-> "into_exception", exc |-> r.exc]
    /\ pend' = NoPend
    /\ cnt' = [cnt EXCEPT !.cleared = @ + 1]
    /\ UNCHANGED <<INIT, VALUE, thr, iter, builder, cfg, boxes, global_list, mark_objects, heap, inp, val>>

(* host code resumes a captured non-local jump: control leaves the host    *)
(* call chain                                                              *)
Resume ==
    /\ pend.state # 0 /\ pend.state # TAG_RAISE
    /\ pend' = NoPend
    /\ last' = [op |-> "resume", state |-> pend.state]
    /\ UNCHANGED <<INIT, VALUE, thr, iter, builder, cfg, boxes, global_list, mark_objects, heap, errinfo, inp, val, cnt>>

Eval(nul, c, ty) ==
    /\ CanCall
    /\ LET r == eval(nul, c, ty, errinfo, heap)
       IN /\ errinfo' = r.slot
          /\ last' = [op |-> "eval", nul |-> nul, c |-> c, ty |-> ty, res |-> r.res,
                      ran |-> r.ran, exc |-> r.exc, slot0 |-> errinfo]
          /\ cnt' = [cnt EXCEPT !.calls = @ + 1,
                                !.captured = @ + (IF r.ran THEN Captured(c.tag) ELSE 0),
                                !.cleared = @ + (IF r.slot = QNIL /\ r.exc # QNIL THEN 1 ELSE 0)]
    /\ UNCHANGED <<INIT, VALUE, thr, iter, builder, cfg, boxes, global_list, mark_objects, heap, pend, inp, val>>

(* Integer::to_i64 hands the captured state to its caller unresolved *)
IntegerToI64(w) ==
    /\ CanCall
    /\ LET call == rb_num2ll(w, heap)
           r == Integer_to_i64(w, heap)
       IN /\ errinfo' = RunProtected(Closure(call), errinfo, heap)
          /\ pend' = IF r.ok THEN NoPend ELSE [state |-> r.e.state]
          /\ last' = [op |-> "Integer_to_i64", call |-> call, res |-> r, slot0 |-> errinfo]
          /\ cnt' = [cnt EXCEPT !.calls = @ + 1, !.captured = @ + Captured(call.tag)]
    /\ UNCHANGED <<INIT, VALUE, thr, iter, builder, cfg, boxes, global_list, mark_objects, heap, inp, val>>

(* Fixnum::to_i8 / to_i16 return an Error: the captured state is resolved  *)
(* into the exception before they return                                   *)
ProtFixnumTo(ty, w) ==
    /\ CanCall
    /\ is_fixnum(w)
    /\ LET call == IF ty = "i8" THEN rb_num2long(w, heap) ELSE rb_num2short(w, heap)
           r == Fixnum_to(ty, w, heap)
           slot1 == RunProtected(Closure(call), errinfo, heap)
       IN /\ errinfo' = IF call.tag = TAG_RAISE THEN into_exception(slot1).slot ELSE slot1
          /\ last' = [op |-> "Fixnum_to", ty |-> ty, call |-> call, res |-> r, slot0 |-> errinfo]
          /\ cnt' = [cnt EXCEPT !.calls = @ + 1, !.captured = @ + Captured(call.tag),
                                !.cleared = @ + Captured(call.tag)]
    /\ UNCHANGED <<INIT, VALUE, thr, iter, builder, cfg, boxes, global_list, mark_objects, heap, pend, inp, val>>

ProtNext ==
    \/ \E c \in Outcomes : Protect(c)
    \/ IntoException
    \/ Resume
    \/ \E nul \in BOOLEAN, c \in Outcomes, ty \in {"Value", "i64"} : Eval(nul, c, ty)
    \/ \E w \in IntegerWords : IntegerToI64(w)
    \/ \E ty \in {"i8", "i16"}, w \in IntegerWords : ProtFixnumTo(ty, w)

ProtSpec == ProtInit /\ [][ProtNext]_vars

C27_EvalStates ==
    last.op = "eval" =>
        IF last.nul THEN ~last.ran /\ ~last.res.ok /\ last.res.e = script_error
        ELSE /\ last.ran
             /\ last.c.tag = 0 => last.res = EvalConvert(last.ty, last.c.v, heap)
             /\ last.c.tag = TAG_RAISE =>
                   /\ ~last.res.ok
                   /\ last.res.e.via = "exception"
                   /\ last.exc \in DOMAIN heap
                   /\ last.res.e = Exception(last.exc, heap)
                   /\ last.res.e.class = last.c.class
             /\ last.c.tag \notin {0, TAG_RAISE} =>
                   /\ ~last.res.ok
                   /\ last.res.e = Jump(last.c.tag)
                   /\ last.res.e.via = "jump"
                   /\ last.res.e.state = last.c.tag

C27_Witness ==
    /\ last.op = "eval"
    /\ ~last.nul
    /\ last.c.tag = 3
    /\ last.res = Err(Jump(3))

(* C4: protect runs its closure once and is Ok with the closure's value    *)
(* iff the completion code is zero, and Err with the code otherwise; a     *)
(* caller that propagates the Err (Integer::to_i64, Fixnum::to_i8,         *)
(* Fixnum::to_i16) is Ok only with the value the runtime returned          *)
C4_ProtectResult ==
    /\ last.op = "protect" =>
          /\ last.runs = 1
          /\ IF last.c.tag = 0 THEN last.ok /\ last.v = last.c.v
             ELSE ~last.ok /\ last.state = last.c.tag
    /\ last.op \in {"Integer_to_i64", "Fixnum_to"} =>
          IF last.call.tag = 0 /\ (last.op = "Fixnum_to" => InTy(last.call.v, last.ty))
          THEN last.res.ok /\ last.res.v = last.call.v
          ELSE ~last.res.ok

C4_Witness ==
    /\ last.op = "Integer_to_i64"
    /\ last.call.tag = TAG_RAISE
    /\ ~last.res.ok /\ last.res.e.state = TAG_RAISE

----------------------------------------------------------------------------
(* The native-call trampolines (src/method.rs)                             *)

MaxArity == 16
MaxFail == 2

ArgName(i) == <<"rb_self", "a", "b", "c", "d", "e", "f", "g", "h", "i", "j", "k", "l",
                "m", "n", "o", "p">>[i + 1]

(* what the conversion of position i (0 is self) gives when it fails *)
ConvErr(i) == type_error(ArgName(i))
UserErr == [class |-> "ArgumentError", msg |-> "user", via |-> "error", state |-> 0]
FuncValue == LONG2FIX(7)

(* Error::from_panic: the error of the bug class that carries the payload *)
from_panic(payload) == [class |-> "fatal", msg |-> payload, via |-> "panic", state |-> 0]

(* the outcome of evaluating an expression: a value, an Err that `?` or   *)
(* the caller sees, or a panic that unwinds                                *)
RetOk(v) == [kind |-> "ok", v |-> v, e |-> NoErr, payload |-> ""]
RetErr(e) == [kind |-> "err", v |-> 0, e |-> e, payload |-> ""]
Panics(payload) == [kind |-> "panic", v |-> 0, e |-> NoErr, payload |-> payload]

Event(ev, pos) == [ev |-> ev, pos |-> pos]

(* mutant: every conversion is run before the first Err is looked at, and *)
(* the last Err wins                                                       *)
RECURSIVE ConvertArgs_Eager(_, _, _, _)
ConvertArgs_Eager(conv, i, log, bad) ==
    IF i > Len(conv) THEN [log |-> log, r |-> IF bad = 0 THEN RetOk(0) ELSE RetErr(ConvErr(bad - 1))]
    ELSE LET log1 == Append(log, Event("convert", i - 1))
         IN IF conv[i] = "panic" THEN [log |-> log1, r |-> Panics(ArgName(i - 1))]
            ELSE ConvertArgs_Eager(conv, i + 1, log1, IF conv[i] = "err" THEN i ELSE bad)

ConvertArgs_Late(conv, i, log) == ConvertArgs_Eager(conv, i, log, 0)

(* rb_self.try_convert()?, a.try_convert()?, ...: the argument expressions *)
(* of the call are evaluated left to right; an Err returns at once and a   *)
(* panic unwinds at once                                                   *)
RECURSIVE ConvertArgs(_, _, _)
ConvertArgs(conv, i, log) ==
    IF i > Len(conv) THEN [log |-> log, r |-> RetOk(0)]
    ELSE LET log1 == Append(log, Event("convert", i - 1))
         IN CASE conv[i] = "ok" -> ConvertArgs(conv, i + 1, log1)
              [] conv[i] = "err" -> [log |-> log1, r |-> RetErr(ConvErr(i - 1))]
              [] OTHER -> [log |-> log1, r |-> Panics(ArgName(i - 1))]

(* mutant: an Err of the user function is turned into a value *)
into_return_value_DropsErr(func, ret) ==
    CASE func = "err" -> RetOk(QNIL)
      [] ret = "panic" -> Panics("into")
      [] OTHER -> RetOk(FuncValue)

(* ReturnValue::into_return_value of what the user function returned *)
into_return_value(func, ret) ==
    CASE func = "err" -> RetErr(UserErr)
      [] ret = "panic" -> Panics("into")
      [] OTHER -> RetOk(FuncValue)

(* call_convert_value: the conversions, the user function, the conversion *)
(* of its result                                                           *)
call_convert_value(conv, func, ret) ==
    LET a == ConvertArgs(conv, 1, <<>>)
    IN IF a.r.kind # "ok" THEN a
       ELSE LET log1 == Append(a.log, Event("call", Len(conv)))
            IN IF func = "panic" THEN [log |-> log1, r |-> Panics("func")]
               ELSE [log |-> Append(log1, Event("into_return_value", 0)),
                     r |-> into_return_value(func, ret)]

(* mutant: the closure is called without catching *)
catch_unwind_Absent(r) == [panicked |-> FALSE, inner |-> r, payload |-> ""]

(* std::panic::catch_unwind: Err(payload) for a panic, Ok(result) otherwise *)
catch_unwind(r) ==
    IF r.kind = "panic" THEN [panicked |-> TRUE, inner |-> r, payload |-> r.payload]
    ELSE [panicked |-> FALSE, inner |-> r, payload |-> ""]

NoRet == 0 - 1

(* call_handle_error: Ok(v) is returned, Err(e) is raised; a panic that   *)
(* nothing caught leaves the function unwinding                            *)
call_handle_error(conv, func, ret) ==
    LET c == call_convert_value(conv, func, ret)
        caught == catch_unwind(c.r)
        res == IF caught.panicked THEN RetErr(from_panic(caught.payload)) ELSE caught.inner
    IN CASE res.kind = "ok" ->
              [log |-> c.log, returned |-> res.v, raised |-> NoErr, unwound |-> FALSE]
         [] res.kind = "err" ->
              [log |-> c.log, returned |-> NoRet, raised |-> res.e, unwound |-> FALSE]
         [] OTHER ->
              [log |-> c.log, returned |-> NoRet, raised |-> NoErr, unwound |-> TRUE]

(* the number of conversions of each trampoline shape: self and the n     *)
(* arguments of MethodN, self alone for MethodCAry, self and the array    *)
(* for MethodRbAry, none for Init                                          *)
Shapes == {"fixed", "c_ary", "rb_ary", "init"}
NConv(shape, n) ==
    CASE shape = "fixed" -> n + 1
      [] shape = "c_ary" -> 1
      [] shape = "rb_ary" -> 2
      [] OTHER -> 0

RECURSIVE ConvSeqs(_, _)
ConvSeqs(n, k) ==
    IF n = 0 THEN {<<>>}
    ELSE {Append(q, "ok") : q \in ConvSeqs(n - 1, k)}
         \cup (IF k > 0
               THEN {Append(q[1], q[2]) : q \in ConvSeqs(n - 1, k - 1) \X {"err", "panic"}}
               ELSE {})

FuncRets == {<<"ok", "ok">>, <<"ok", "panic">>, <<"err", "ok">>, <<"panic", "ok">>}

(* the parameter list of a trampoline's function-pointer type *)
Values(k) == [i \in 1 .. k |-> "Value"]
Sigs == {Values(k) : k \in 1 .. (MaxArity + 1)}
           \cup {<<"c_int", "*const Value", "Value">>, <<"Value", "RArray">>}

(* mutant: self is counted as an argument *)
Method_arity_CountsSelf(sig) ==
    CASE sig = <<"Value", "RArray">> -> 0 - 2
      [] sig = <<"c_int", "*const Value", "Value">> -> 0 - 1
      [] OTHER -> Len(sig)

(* Method::arity, one impl per function-pointer type *)
Method_arity(sig) ==
    CASE sig = <<"Value", "RArray">> -> 0 - 2
      [] sig = <<"c_int", "*const Value", "Value">> -> 0 - 1
      [] sig = Values(1) -> 0
      [] sig = Values(2) -> 1
      [] sig = Values(3) -> 2
      [] sig = Values(4) -> 3
      [] sig = Values(5) -> 4
      [] sig = Values(6) -> 5
      [] sig = Values(7) -> 6
      [] sig = Values(8) -> 7
      [] sig = Values(9) -> 8
      [] sig = Values(10) -> 9
      [] sig = Values(11) -> 10
      [] sig = Values(12) -> 11
      [] sig = Values(13) -> 12
      [] sig = Values(14) -> 13
      [] sig = Values(15) -> 14
      [] sig = Values(16) -> 15
      [] sig = Values(17) -> 16

(* define_global_function: what rb_define_global_function is handed *)
define_global_function(name, sig) ==
    [name |-> name, ptr |-> sig, arity |-> Method_arity(sig)]

MaxArgc == 2

(* the memory argv points to: MaxArgc + 1 cells, of which the runtime says *)
(* the first argc are the arguments                                         *)
ArgvCells == [1 .. (MaxArgc + 1) -> {LONG2FIX(1), RUBY_Qnil}]

(* mutant: the slice takes every cell, whatever argc says *)
slice_from_raw_parts_All(argv, argc) == argv

(* slice::from_raw_parts(argv, argc as usize) *)
slice_from_raw_parts(argv, argc) == SubSeq(argv, 1, argc)

NoArgs == <<0 - 1>>

(* MethodCAry::call_convert_value: the slice is made, self is converted,   *)
(* the function gets self and the slice                                     *)
MethodCAry_call_convert_value(argc, argv, conv, func, ret) ==
    LET args == slice_from_raw_parts(argv, argc)
        c == call_convert_value(conv, func, ret)
    IN [log |-> c.log, r |-> c.r,
        passed |-> IF \E i \in 1 .. Len(c.log) : c.log[i].ev = "call" THEN args ELSE NoArgs]

(* MethodCAry::call_handle_error *)
MethodCAry_call_handle_error(argc, argv, conv, func, ret) ==
    LET c == MethodCAry_call_convert_value(argc, argv, conv, func, ret)
        caught == catch_unwind(c.r)
        res == IF caught.panicked THEN RetErr(from_panic(caught.payload)) ELSE caught.inner
    IN [log |-> c.log, passed |-> c.passed,
        returned |-> IF res.kind = "ok" THEN res.v ELSE NoRet,
        raised |-> IF res.kind = "err" THEN res.e ELSE NoErr,
        unwound |-> res.kind = "panic"]

TrampInit ==
    /\ inp = 0
    /\ val = NoVal
    /\ heap = NoHeap
    /\ errinfo = QNIL
    /\ pend = NoPend
    /\ last = NoLast
    /\ cnt = NoCnt
    /\ NoRoots
    /\ NoMemo
    /\ NoIter
    /\ NoBuild

(* the runtime calls a registered trampoline *)
TrampCall(shape, n, conv, fr) ==
    /\ last = NoLast
    /\ shape = "init" => fr[2] = "ok"
    /\ LET r == call_handle_error(conv, fr[1], fr[2])
       IN last' = [op |-> "call", shape |-> shape, n |-> n, conv |-> conv,
                   func |-> fr[1], ret |-> fr[2], log |-> r.log,
                   returned |-> r.returned, raised |-> r.raised, unwound |-> r.unwound]
    /\ UNCHANGED <<INIT, VALUE, thr, iter, builder, cfg, boxes, global_list, mark_objects, heap, errinfo, pend, inp, val, cnt>>

(* the runtime calls a trampoline registered with arity -1 *)
TrampCallCAry(argc, argv, conv, fr) ==
    /\ last = NoLast
    /\ LET r == MethodCAry_call_handle_error(argc, argv, conv, fr[1], fr[2])
       IN last' = [op |-> "call", shape |-> "c_ary", n |-> 0, conv |-> conv,
                   func |-> fr[1], ret |-> fr[2], log |-> r.log,
                   returned |-> r.returned, raised |-> r.raised, unwound |-> r.unwound,
                   argc |-> argc, argv |-> argv, passed |-> r.passed]
    /\ UNCHANGED <<INIT, VALUE, thr, iter, builder, cfg, boxes, global_list, mark_objects, heap, errinfo, pend, inp, val, cnt>>

(* a trampoline is registered under a name *)
DefineGlobalFunction(name, sig) ==
    /\ last = NoLast
    /\ last' = [op |-> "define", reg |-> define_global_function(name, sig)]
    /\ UNCHANGED <<INIT, VALUE, thr, iter, builder, cfg, boxes, global_list, mark_objects, heap, errinfo, pend, inp, val, cnt>>

(* the call is over: control is back in the runtime, which may call again *)
TrampReturn ==
    /\ last # NoLast
    /\ last' = NoLast
    /\ UNCHANGED <<INIT, VALUE, thr, iter, builder, cfg, boxes, global_list, mark_objects, heap, errinfo, pend, inp, val, cnt>>

(* the parameter names of a trampoline of n arguments: rb_self, a, b, .. *)
ParamNames(n) == [i \in 1 .. n + 1 |-> ArgName(i - 1)]

(* the method! macro, arm by arm: the parameters of the extern "C" fn it  *)
(* declares, the Method struct it builds and the arguments it hands to    *)
(* call_handle_error; any arity without an arm is a compile_error!        *)
method(arity) ==
    CASE arity = 0 - 2 ->
           [params |-> <<"rb_self", "args">>, target |-> "MethodRbAry",
            forwards |-> <<"rb_self", "args">>]
      [] arity = 0 - 1 ->
           [params |-> <<"argc", "argv", "rb_self">>, target |-> "MethodCAry",
            forwards |-> <<"argc", "argv", "rb_self">>]
      [] arity = 5 ->
           [params |-> ParamNames(5), target |-> <<"Method", 5>>, forwards |-> ParamNames(6)]
      [] arity \in 0 .. MaxArity ->
           [params |-> ParamNames(arity), target |-> <<"Method", arity>>,
            forwards |-> ParamNames(arity)]
      [] OTHER ->
           [params |-> <<>>, target |-> "compile_error", forwards |-> <<>>]

(* the literals given to method! *)
ArityLiterals == (0 - 3) .. (MaxArity + 1)

(* method!(name, arity) is expanded *)
ExpandMethod(arity) ==
    /\ last = NoLast
    /\ last' = [op |-> "method!", arity |-> arity, exp |-> method(arity)]
    /\ UNCHANGED <<INIT, VALUE, thr, iter, builder, cfg, boxes, global_list, mark_objects, heap, errinfo, pend, inp, val, cnt>>

TrampNext ==
    \/ \E arity \in ArityLiterals : ExpandMethod(arity)
    \/ /\ last = NoLast
       /\ \E n \in 0 .. MaxArity : \E conv \in ConvSeqs(NConv("fixed", n), MaxFail) :
             \E fr \in FuncRets : TrampCall("fixed", n, conv, fr)
    \/ /\ last = NoLast
       /\ \E shape \in {"rb_ary", "init"} : \E conv \in ConvSeqs(NConv(shape, 0), MaxFail) :
             \E fr \in FuncRets : TrampCall(shape, 0, conv, fr)
    \/ /\ last = NoLast
       /\ \E argc \in 0 .. MaxArgc : \E argv \in ArgvCells :
             \E conv \in ConvSeqs(NConv("c_ary", 0), MaxFail) :
                \E fr \in FuncRets : TrampCallCAry(argc, argv, conv, fr)
    \/ \E sig \in Sigs : DefineGlobalFunction("f", sig)
    \/ TrampReturn

TrampSpec == TrampInit /\ [][TrampNext]_vars

(* what the inputs of a call say must happen, read off the inputs alone *)
BadPos(conv) == {i \in 1 .. Len(conv) : conv[i] # "ok"}
FirstBad(conv) == CHOOSE i \in BadPos(conv) : \A j \in BadPos(conv) : i <= j
ConvFails(conv) == BadPos(conv) # {} /\ conv[FirstBad(conv)] = "err"
PanicHappens(conv, func, ret) ==
    \/ BadPos(conv) # {} /\ conv[FirstBad(conv)] = "panic"
    \/ BadPos(conv) = {} /\ func = "panic"
    \/ BadPos(conv) = {} /\ func = "ok" /\ ret = "panic"
Converted(log) == SelectSeq(log, LAMBDA x : x.ev = "convert")
Invoked(log) == \E i \in 1 .. Len(log) : log[i].ev = "call"

(* C1: a panic during a conversion, in the user function or during the    *)
(* conversion of the result never leaves call_handle_error unwinding: it  *)
(* is raised as the error Error::from_panic builds                        *)
C1_PanicFirewall ==
    last.op = "call" =>
        /\ ~last.unwound
        /\ PanicHappens(last.conv, last.func, last.ret) =>
              /\ last.raised.via = "panic"
              /\ last.raised.class = "fatal"
              /\ last.returned = NoRet

C1_Witness ==
    /\ last.op = "call" /\ last.shape = "c_ary"
    /\ last.conv = <<"ok">> /\ last.func = "ok" /\ last.ret = "panic"
    /\ last.raised.via = "panic"

(* C2: in Method1..Method16 self is converted first and the arguments     *)
(* then left to right; at the first conversion that fails no later one is *)
(* attempted, the user function is not invoked and the error raised is    *)
(* that conversion's                                                       *)
C2_FailFast ==
    (last.op = "call" /\ last.shape = "fixed" /\ last.n >= 1) =>
        LET cv == Converted(last.log)
            upto == IF BadPos(last.conv) = {} THEN Len(last.conv) ELSE FirstBad(last.conv)
        IN /\ Len(cv) = upto
           /\ \A i \in 1 .. Len(cv) : cv[i].pos = i - 1
           /\ BadPos(last.conv) # {} => ~Invoked(last.log)
           /\ ConvFails(last.conv) =>
                 last.raised = type_error(ArgName(FirstBad(last.conv) - 1))

C2_Witness ==
    /\ last.op = "call" /\ last.shape = "fixed" /\ last.n = 2
    /\ last.conv = <<"ok", "err", "err">>
    /\ last.raised = type_error("a")
    /\ ~Invoked(last.log)

(* C6: a trampoline raises iff a conversion fails, the user function      *)
(* returns Err or a panic occurs; an Err is raised unchanged, a panic as  *)
(* the bug-class error and never as a type error; otherwise the converted *)
(* result is returned and nothing is raised                                *)
C6_RaiseIffFailure ==
    last.op = "call" =>
        LET panic == PanicHappens(last.conv, last.func, last.ret)
            convfail == ConvFails(last.conv)
            funcerr == BadPos(last.conv) = {} /\ last.func = "err"
        IN /\ (last.raised # NoErr) <=> (panic \/ convfail \/ funcerr)
           /\ convfail => last.raised = type_error(ArgName(FirstBad(last.conv) - 1))
           /\ funcerr => last.raised = UserErr
           /\ panic => last.raised.class = "fatal" /\ last.raised.class # "TypeError"
           /\ ~(panic \/ convfail \/ funcerr) =>
                 last.returned = FuncValue /\ last.raised = NoErr
           /\ (last.raised # NoErr) <=> (last.returned = NoRet)

C6_Witness ==
    /\ last.op = "call" /\ last.shape = "fixed" /\ last.n = 16
    /\ BadPos(last.conv) = {} /\ last.func = "err"
    /\ last.raised = UserErr

----------------------------------------------------------------------------
(* BitSpec: classification of a tagged word and the heap-object wrappers    *)

(* what the runtime encodes in the word itself: the four special constants, *)
(* INT2FIX(n), ID2SYM of a static id, and the flonums                       *)
SpecialConsts == {RUBY_Qfalse, RUBY_Qnil, RUBY_Qtrue, RUBY_Qundef}
FixnumWords == {LONG2FIX(n) : n \in FIXNUM_MIN .. FIXNUM_MAX}
StaticSymWords == {w \in Words : \E id \in 0 .. (WordMod \div Pow2(RUBY_SPECIAL_SHIFT)) :
                                    w = (id * Pow2(RUBY_SPECIAL_SHIFT) + RUBY_SYMBOL_FLAG) % WordMod}
FlonumWords == {w \in Words : \E m \in 0 .. (WordMod \div (RUBY_FLONUM_MASK + 1)) :
                                 w = m * (RUBY_FLONUM_MASK + 1) + RUBY_FLONUM_FLAG}
RuntimeImmediates == SpecialConsts \cup FixnumWords \cup StaticSymWords \cup FlonumWords

(* the heap objects present: one of each type tag the wrappers look for and *)
(* a boxed float, each once plain and once frozen                           *)
HeapTags == <<RUBY_T_ARRAY, RUBY_T_HASH, RUBY_T_BIGNUM, RUBY_T_COMPLEX, RUBY_T_RATIONAL,
              RUBY_T_REGEXP, RUBY_T_OBJECT, RUBY_T_STRUCT, RUBY_T_MATCH, RUBY_T_FLOAT>>
HeapClasses == <<"Array", "Hash", "Integer", "Complex", "Rational",
                 "Regexp", "Object", "Struct", "MatchData", "Float">>
BitObj(i) ==
    LET k == ((i - 1) % Len(HeapTags)) + 1
    IN [flags |-> HeapTags[k] + (IF i > Len(HeapTags) THEN RUBY_FL_FREEZE ELSE 0)
                  + (IF HeapTags[k] = RUBY_T_BIGNUM THEN RUBY_FL_USER1 ELSE 0),
        num |-> IF HeapTags[k] = RUBY_T_BIGNUM THEN FIXNUM_MAX + 1 ELSE 0,
        class |-> HeapClasses[k]]
BitHeap == [a \in {HeapBase + 8 * (i - 1) : i \in 1 .. 2 * Len(HeapTags)} |->
               BitObj(((a - HeapBase) \div 8) + 1)]

(* a Value the program can hold: encoded in the word, or a live reference *)
RuntimeValue(w, h) == w \in RuntimeImmediates \/ w \in DOMAIN h

(* the object headers rb_type and is_frozen read *)
HeaderReads(w) == IF r_basic(w).some THEN {r_basic(w).ptr} ELSE {}

is_frozen(w, h) ==
    IF r_basic(w).some
    THEN (h[r_basic(w).ptr].flags \div RUBY_FL_FREEZE) % 2 # 0
    ELSE TRUE

(* the predicates of the chain in rb_type that hold of w *)
Predicates(w) ==
    {p \in {"false", "nil", "true", "undef", "fixnum", "symbol", "flonum"} :
        CASE p = "false" -> is_false(w)
          [] p = "nil" -> is_nil(w)
          [] p = "true" -> is_true(w)
          [] p = "undef" -> is_undef(w)
          [] p = "fixnum" -> is_fixnum(w)
          [] p = "symbol" -> is_static_symbol(w)
          [] OTHER -> is_flonum(w)}

(* RBasic::from_value and RBasic::builtin_type, as r_struct.rs and          *)
(* r_match.rs use them                                                      *)
RBasic_from_value(w) == r_basic(w)
builtin_type(ptr, h) == IF ptr \in DOMAIN h THEN h[ptr].flags % (RUBY_T_MASK + 1) ELSE RUBY_T_NONE

Wrappers == {"RArray", "RHash", "RBignum", "RComplex", "RRational", "RRegexp", "RObject",
             "RStruct", "RMatch"}
WrapperTag(wr) ==
    CASE wr = "RArray" -> RUBY_T_ARRAY
      [] wr = "RHash" -> RUBY_T_HASH
      [] wr = "RBignum" -> RUBY_T_BIGNUM
      [] wr = "RComplex" -> RUBY_T_COMPLEX
      [] wr = "RRational" -> RUBY_T_RATIONAL
      [] wr = "RRegexp" -> RUBY_T_REGEXP
      [] wr = "RObject" -> RUBY_T_OBJECT
      [] wr = "RStruct" -> RUBY_T_STRUCT
      [] OTHER -> RUBY_T_MATCH

(* mutant: the flags are compared with the tag without masking *)
Wrapper_from_value_Unmasked(wr, w, h) ==
    IF r_basic(w).some /\ r_basic(w).ptr \in DOMAIN h /\ h[r_basic(w).ptr].flags = WrapperTag(wr)
    THEN [some |-> TRUE, w |-> w] ELSE [some |-> FALSE, w |-> 0]

(* RArray::from_value .. RObject::from_value compare rb_type with the tag; *)
(* RStruct and RMatch go through RBasic::from_value                         *)
Wrapper_from_value(wr, w, h) ==
    IF wr \in {"RStruct", "RMatch"}
    THEN IF RBasic_from_value(w).some /\ builtin_type(RBasic_from_value(w).ptr, h) = WrapperTag(wr)
         THEN [some |-> TRUE, w |-> w] ELSE [some |-> FALSE, w |-> 0]
    ELSE IF rb_type(w, h) = WrapperTag(wr)
         THEN [some |-> TRUE, w |-> w] ELSE [some |-> FALSE, w |-> 0]

(* Value::class, by name: the header's class for a reference, the class of *)
(* the immediate's kind otherwise                                            *)
class(w, h) ==
    IF r_basic(w).some THEN h[r_basic(w).ptr].class
    ELSE CASE is_false(w) -> "FalseClass"
           [] is_nil(w) -> "NilClass"
           [] is_true(w) -> "TrueClass"
           [] is_undef(w) -> "panic: undef does not have a class"
           [] is_fixnum(w) -> "Integer"
           [] is_static_symbol(w) -> "Symbol"
           [] OTHER -> "Float"

(* what the value's implicit-conversion method does when the runtime tries *)
(* it: there is none, it gives a container, or the call raises (the method *)
(* raises, or returns what is no container)                                 *)
ImplicitConvs == {"none", "container", "raises"}
ArrayObj == [flags |-> RUBY_T_ARRAY, num |-> 0, class |-> "Array"]
HashObj == [flags |-> RUBY_T_HASH, num |-> 0, class |-> "Hash"]

(* rb_ary_to_ary: the value if it is an array, what to_ary gives, or a new *)
(* one-element array holding the value                                      *)
rb_ary_to_ary(w, h, conv) ==
    IF rb_type(w, h) = RUBY_T_ARRAY THEN [c |-> Completes(w), h |-> h]
    ELSE CASE conv = "raises" -> [c |-> Raises("TypeError", "to_ary"), h |-> h]
           [] OTHER -> [c |-> Completes(NextAddr(h)), h |-> Alloc(h, ArrayObj)]

(* rb_check_hash_type: the value if it is a hash, what to_hash gives, or nil *)
rb_check_hash_type(w, h, conv) ==
    IF rb_type(w, h) = RUBY_T_HASH THEN [c |-> Completes(w), h |-> h]
    ELSE CASE conv = "raises" -> [c |-> Raises("TypeError", "to_hash"), h |-> h]
           [] conv = "container" -> [c |-> Completes(NextAddr(h)), h |-> Alloc(h, HashObj)]
           [] OTHER -> [c |-> Completes(QNIL), h |-> h]

(* impl TryConvert for RArray *)
RArray_try_convert(w, h, conv) ==
    IF Wrapper_from_value("RArray", w, h).some
    THEN [res |-> Ok(w), h |-> h, calls |-> 0]
    ELSE LET r == rb_ary_to_ary(w, h, conv)
             p == protect(r.c)
         IN [res |-> IF p.state = TAG_NONE THEN Ok(p.v) ELSE Err(ProtectErr(p)),
             h |-> r.h, calls |-> p.runs]

(* mutant: the result of the runtime's conversion is wrapped unchecked *)
RHash_try_convert_Unchecked(w, h, conv) ==
    IF Wrapper_from_value("RHash", w, h).some
    THEN [res |-> Ok(w), h |-> h, calls |-> 0]
    ELSE LET r == rb_check_hash_type(w, h, conv)
             p == protect(r.c)
         IN [res |-> IF p.state = TAG_NONE THEN Ok(p.v) ELSE Err(ProtectErr(p)),
             h |-> r.h, calls |-> p.runs]

(* impl TryConvert for RHash *)
RHash_try_convert(w, h, conv) ==
    IF Wrapper_from_value("RHash", w, h).some
    THEN [res |-> Ok(w), h |-> h, calls |-> 0]
    ELSE LET r == rb_check_hash_type(w, h, conv)
             p == protect(r.c)
         IN [res |-> IF p.state # TAG_NONE THEN Err(ProtectErr(p))
                     ELSE IF Wrapper_from_value("RHash", p.v, r.h).some THEN Ok(p.v)
                     ELSE Err(type_error("no implicit conversion of " \o class(w, h)
                                         \o " into Hash")),
             h |-> r.h, calls |-> p.runs]

(* NonZeroValue::new_unchecked: the word is stored as it is *)
NonZeroValue_new_unchecked(w) == [some |-> TRUE, w |-> w]
NoNonZero == [some |-> FALSE, w |-> 0]

StaticSymbol_from_value(w) == IF is_static_symbol(w) THEN NonZeroValue_new_unchecked(w) ELSE NoNonZero
Flonum_from_value(w) == IF is_flonum(w) THEN NonZeroValue_new_unchecked(w) ELSE NoNonZero

(* mutant: any immediate is taken for a flonum *)
Float_from_value_AnyImmediate(w, h) ==
    IF is_immediate(w) THEN NonZeroValue_new_unchecked(w)
    ELSE IF rb_type(w, h) = RUBY_T_FLOAT THEN NonZeroValue_new_unchecked(w) ELSE NoNonZero

(* mutant: only a flonum is taken for a Float *)
Float_from_value_FlonumOnly(w, h) ==
    IF And(w, RUBY_FLONUM_MASK) = RUBY_FLONUM_FLAG THEN NonZeroValue_new_unchecked(w)
    ELSE NoNonZero

(* Float::from_value: a flonum by its bits, or a T_FLOAT object *)
Float_from_value(w, h) ==
    IF And(w, RUBY_FLONUM_MASK) = RUBY_FLONUM_FLAG THEN NonZeroValue_new_unchecked(w)
    ELSE IF rb_type(w, h) = RUBY_T_FLOAT THEN NonZeroValue_new_unchecked(w) ELSE NoNonZero

(* the from_value constructors that store a NonZeroValue *)
BitConstructors == {"Fixnum", "StaticSymbol", "Flonum"}
NonZeroWrappers == Wrappers \ {"RStruct", "RMatch"}
NonZero_from_value(k, w, h) ==
    CASE k = "Fixnum" -> Fixnum_from_value(w)
      [] k = "StaticSymbol" -> StaticSymbol_from_value(w)
      [] k = "Flonum" -> Flonum_from_value(w)
      [] k = "Float" -> Float_from_value(w, h)
      [] OTHER -> Wrapper_from_value(k, w, h)

(* mutant: only the zero word is false *)
Value_to_bool_ZeroOnly(w) == w # 0

(* Value::to_bool: the word with the nil bit cleared is not zero *)
Value_to_bool(w) == And(w, Not(RUBY_Qnil)) # 0

(* impl TryConvert for bool *)
bool_try_convert(w) == Ok(Value_to_bool(w))

BitInit ==
    /\ inp = 0
    /\ val \in {[w |-> w, from |-> "bits"] : w \in Words}
    /\ heap = BitHeap
    /\ errinfo = QNIL
    /\ pend = NoPend
    /\ last = NoLast
    /\ cnt = NoCnt
    /\ NoRoots
    /\ NoMemo
    /\ NoIter
    /\ NoBuild

IsImmediate ==
    /\ last = NoLast
    /\ last' = [op |-> "is_immediate", imm |-> is_immediate(val.w), basic |-> r_basic(val.w)]
    /\ UNCHANGED <<INIT, VALUE, thr, iter, builder, cfg, boxes, global_list, mark_objects, heap, errinfo, pend, inp, val, cnt>>

RbType ==
    /\ last = NoLast
    /\ RuntimeValue(val.w, heap)
    /\ last' = [op |-> "rb_type", ty |-> rb_type(val.w, heap), reads |-> HeaderReads(val.w),
                preds |-> Predicates(val.w)]
    /\ UNCHANGED <<INIT, VALUE, thr, iter, builder, cfg, boxes, global_list, mark_objects, heap, errinfo, pend, inp, val, cnt>>

IsFrozen ==
    /\ last = NoLast
    /\ RuntimeValue(val.w, heap)
    /\ last' = [op |-> "is_frozen", res |-> is_frozen(val.w, heap), reads |-> HeaderReads(val.w)]
    /\ UNCHANGED <<INIT, VALUE, thr, iter, builder, cfg, boxes, global_list, mark_objects, heap, errinfo, pend, inp, val, cnt>>

FromValue(wr) ==
    /\ last = NoLast
    /\ RuntimeValue(val.w, heap)
    /\ last' = [op |-> "from_value", wr |-> wr, res |-> Wrapper_from_value(wr, val.w, heap),
                reads |-> HeaderReads(val.w)]
    /\ UNCHANGED <<INIT, VALUE, thr, iter, builder, cfg, boxes, global_list, mark_objects, heap, errinfo, pend, inp, val, cnt>>

(* RArray::try_convert(val) or RHash::try_convert(val), of an object: the *)
(* runtime hands undef to no method                                       *)
ContainerTryConvert(c, conv) ==
    /\ last = NoLast
    /\ RuntimeValue(val.w, heap)
    /\ ~is_undef(val.w)
    /\ LET r == IF c = "RArray" THEN RArray_try_convert(val.w, heap, conv)
                ELSE RHash_try_convert(val.w, heap, conv)
       IN /\ last' = [op |-> "container_try_convert", c |-> c, conv |-> conv,
                      res |-> r.res, calls |-> r.calls]
          /\ heap' = r.h
    /\ UNCHANGED <<INIT, VALUE, thr, iter, builder, cfg, boxes, global_list, mark_objects, errinfo, pend, inp, val, cnt>>

(* a from_value constructor is applied: one that looks at the bits only to *)
(* any word, one that reads the header to a Value                          *)
Construct(k) ==
    /\ last = NoLast
    /\ k \in BitConstructors \/ RuntimeValue(val.w, heap)
    /\ last' = [op |-> "construct", k |-> k, res |-> NonZero_from_value(k, val.w, heap)]
    /\ UNCHANGED <<INIT, VALUE, thr, iter, builder, cfg, boxes, global_list, mark_objects, heap, errinfo, pend, inp, val, cnt>>

(* rb_type on a Value of any bits that is_immediate takes for an immediate: *)
(* r_basic is None and the chain of predicates decides                      *)
Classify ==
    /\ last = NoLast
    /\ is_immediate(val.w)
    /\ last' = [op |-> "classify", ty |-> rb_type(val.w, heap), preds |-> Predicates(val.w)]
    /\ UNCHANGED <<INIT, VALUE, thr, iter, builder, cfg, boxes, global_list, mark_objects, heap, errinfo, pend, inp, val, cnt>>

(* val.to_bool() and bool::try_convert(val) *)
ToBool ==
    /\ last = NoLast
    /\ last' = [op |-> "to_bool", res |-> Value_to_bool(val.w), conv |-> bool_try_convert(val.w)]
    /\ UNCHANGED <<INIT, VALUE, thr, iter, builder, cfg, boxes, global_list, mark_objects, heap, errinfo, pend, inp, val, cnt>>

BitNext ==
    \/ IsImmediate
    \/ Classify
    \/ ToBool
    \/ RbType
    \/ IsFrozen
    \/ \E wr \in Wrappers : FromValue(wr)
    \/ \E k \in BitConstructors \cup {"Float"} \cup NonZeroWrappers : Construct(k)
    \/ \E c \in {"RArray", "RHash"} : \E conv \in ImplicitConvs : ContainerTryConvert(c, conv)

BitSpec == BitInit /\ [][BitNext]_vars

(* the type tag the runtime's encoding gives an immediate word, by arithmetic *)
EncodedTag(w) ==
    CASE w = 0 -> RUBY_T_FALSE
      [] w = 8 -> RUBY_T_NIL
      [] w = 20 -> RUBY_T_TRUE
      [] w = 52 -> RUBY_T_UNDEF
      [] w % 2 = 1 -> RUBY_T_FIXNUM
      [] w % 256 = 12 -> RUBY_T_SYMBOL
      [] OTHER -> RUBY_T_FLOAT

(* C11: for every word that encodes false, nil, true, undef, a fixnum, a   *)
(* static symbol or a flonum, is_immediate is true, rb_type is the one     *)
(* matching tag, and exactly one predicate of the chain holds              *)
C11_ImmediateClassification ==
    (last.op = "rb_type" /\ val.w \in RuntimeImmediates) =>
        /\ is_immediate(val.w)
        /\ last.ty = EncodedTag(val.w)
        /\ Cardinality(last.preds) = 1

C11_Witness ==
    /\ last.op = "rb_type"
    /\ val.w = 256 + 12
    /\ last.ty = RUBY_T_SYMBOL

(* C12: is_immediate is true exactly of the words with one of the low      *)
(* three bits set and of false and nil; r_basic gives a pointer iff         *)
(* is_immediate is false; rb_type and is_frozen read no header for an       *)
(* immediate                                                                *)
C12_ImmediateByBits ==
    /\ last.op = "is_immediate" =>
          /\ last.imm <=> (val.w % 8 # 0 \/ val.w \in {0, 8})
          /\ last.basic.some <=> ~last.imm
          /\ last.basic.some => last.basic.ptr = val.w
    /\ last.op \in {"rb_type", "is_frozen"} =>
          /\ (val.w % 8 # 0 \/ val.w \in {0, 8}) => last.reads = {}
          /\ ~(val.w % 8 # 0 \/ val.w \in {0, 8}) => last.reads = {val.w}

C12_Witness ==
    /\ last.op = "is_frozen"
    /\ val.w = 8
    /\ last.reads = {}
    /\ last.res

(* C13: each wrapper's from_value is Some iff the value is a reference     *)
(* whose header tag is the wrapper's; None for every immediate and for a   *)
(* heap value of another type; only the header is read                     *)
C13_WrapperFromValue ==
    last.op = "from_value" =>
        /\ last.res.some <=>
              (val.w \in DOMAIN heap /\ heap[val.w].flags % 32 = WrapperTag(last.wr))
        /\ last.res.some => last.res.w = val.w
        /\ val.w \in RuntimeImmediates => ~last.res.some /\ last.reads = {}
        /\ last.reads \subseteq {val.w}

C13_Witness ==
    /\ last.op = "from_value" /\ last.wr = "RHash"
    /\ val.w \in DOMAIN heap
    /\ heap[val.w].flags = RUBY_T_HASH + RUBY_FL_FREEZE
    /\ last.res.some

(* C14: RArray::try_convert and RHash::try_convert give back the value     *)
(* itself, with no runtime call, when its tag is the container's;          *)
(* otherwise one protected runtime conversion runs and the result is Ok of *)
(* a value with the container's tag, a type error naming the value's class *)
(* when the conversion gave no container, or the captured exception        *)
C14_ContainerTryConvert ==
    last.op = "container_try_convert" =>
        LET tag == WrapperTag(last.c)
        IN IF val.w \in DOMAIN heap /\ heap[val.w].flags % 32 = tag
           THEN last.res = Ok(val.w) /\ last.calls = 0
           ELSE /\ last.calls = 1
                /\ last.res.ok =>
                      /\ last.res.v \in DOMAIN heap
                      /\ heap[last.res.v].flags % 32 = tag
                /\ ~last.res.ok =>
                      \/ /\ last.conv = "raises"
                         /\ last.res.e.via = "exception"
                      \/ /\ last.conv = "none"
                         /\ last.res.e.class = "TypeError"
                         /\ last.res.e.via = "error"
                         /\ last.res.e.msg =
                               "no implicit conversion of " \o class(val.w, heap) \o " into Hash"
                /\ last.conv = "raises" => ~last.res.ok

C14_Witness ==
    /\ last.op = "container_try_convert" /\ last.c = "RHash"
    /\ val.w = RUBY_Qnil /\ last.conv = "none"
    /\ last.res.e.msg = "no implicit conversion of NilClass into Hash"

(* C15: Method::arity is N for the function-pointer type taking self and N *)
(* Values, N from 0 to 16, -1 for (argc, argv, self) and -2 for            *)
(* (self, RArray), and that number is what the runtime is handed when the  *)
(* function is registered                                                   *)
C15_ArityCodes ==
    last.op = "define" =>
        LET sig == last.reg.ptr
        IN /\ (\A i \in 1 .. Len(sig) : sig[i] = "Value") =>
                 /\ last.reg.arity = Len(sig) - 1
                 /\ last.reg.arity \in 0 .. 16
           /\ sig[1] = "c_int" => last.reg.arity = 0 - 1
           /\ sig[Len(sig)] = "RArray" => last.reg.arity = 0 - 2

C15_Witness ==
    /\ last.op = "define"
    /\ Len(last.reg.ptr) = 17
    /\ last.reg.arity = 16

(* C24: for every arity literal N from 0 to 16 method! expands to a        *)
(* trampoline that takes self and exactly N Value parameters and forwards *)
(* self and exactly those N parameters, in order, to                      *)
(* MethodN::call_handle_error; -1 and -2 select the C-array and the       *)
(* Ruby-array trampoline; any other arity is rejected at compile time     *)
C24_MacroForwards ==
    last.op = "method!" =>
        LET n == last.arity
            x == last.exp
        IN /\ n \in 0 .. 16 =>
                 /\ x.params = ParamNames(n)
                 /\ x.forwards = x.params
                 /\ x.target = <<"Method", n>>
           /\ n = 0 - 1 => x.target = "MethodCAry" /\ x.forwards = x.params
           /\ n = 0 - 2 => x.target = "MethodRbAry" /\ x.forwards = x.params
           /\ n \notin (0 - 2) .. 16 => x.target = "compile_error"

(* the arm of arity 5 hands on a name that is no parameter of its fn *)
C24_Arity5ForwardsUnbound ==
    /\ last.op = "method!"
    /\ last.arity = 5
    /\ Len(last.exp.forwards) = Len(last.exp.params) + 1
    /\ last.exp.forwards[7] = "f"
    /\ \A i \in 1 .. Len(last.exp.params) : last.exp.params[i] # "f"

(* C16: MethodCAry converts only self and gives the function exactly the   *)
(* argc argument values in their order; MethodRbAry converts self and then *)
(* the argument array; in both a failed conversion keeps the function from *)
(* being invoked, and the result, an Err and a panic are handled as in the *)
(* fixed arities                                                            *)
C16_VariadicShapes ==
    (last.op = "call" /\ last.shape \in {"c_ary", "rb_ary"}) =>
        LET cv == Converted(last.log)
            bad == BadPos(last.conv) # {}
        IN /\ last.shape = "c_ary" =>
                 /\ Len(cv) = 1 /\ cv[1].pos = 0
                 /\ Invoked(last.log) =>
                       /\ Len(last.passed) = last.argc
                       /\ \A i \in 1 .. last.argc : last.passed[i] = last.argv[i]
           /\ last.shape = "rb_ary" =>
                 /\ Len(cv) \in 1 .. 2
                 /\ \A i \in 1 .. Len(cv) : cv[i].pos = i - 1
                 /\ last.conv[1] = "ok" => Len(cv) = 2
           /\ bad <=> ~Invoked(last.log)
           /\ ~last.unwound
           /\ (~bad /\ last.func = "ok" /\ last.ret = "ok") =>
                 last.returned = FuncValue /\ last.raised = NoErr
           /\ (~bad /\ last.func = "err") => last.raised = UserErr
           /\ PanicHappens(last.conv, last.func, last.ret) => last.raised.via = "panic"
           /\ ConvFails(last.conv) =>
                 last.raised = type_error(ArgName(FirstBad(last.conv) - 1))

C16_Witness ==
    /\ last.op = "call" /\ last.shape = "c_ary"
    /\ last.argc = 2
    /\ last.argv = <<LONG2FIX(1), RUBY_Qnil, LONG2FIX(1)>>
    /\ last.passed = <<LONG2FIX(1), RUBY_Qnil>>
    /\ last.returned = FuncValue

(* C17: whatever a from_value constructor stores in a NonZeroValue is the  *)
(* given word and is not the all-zero word: the test before                *)
(* new_unchecked never passes for zero                                     *)
C17_NonZeroStored ==
    (last.op = "construct" /\ last.res.some) =>
        /\ last.res.w # 0
        /\ last.res.w = val.w

C17_Witness ==
    /\ last.op = "construct" /\ last.k = "Float"
    /\ val.w = RUBY_FLONUM_FLAG
    /\ last.res.some /\ last.res.w = RUBY_FLONUM_FLAG

(* C28 as stated: for every word that is_immediate takes for an immediate *)
(* exactly one predicate of the chain holds and rb_type does not reach    *)
(* unreachable!()                                                         *)
C28_EveryImmediateWord ==
    last.op = "classify" => Cardinality(last.preds) = 1 /\ last.ty # 0 - 1

(* the words is_immediate accepts that no predicate does: low bits 100 and *)
(* neither true, undef nor a static symbol                                 *)
Unclassified(w) ==
    /\ w % (RUBY_IMMEDIATE_MASK + 1) = 4
    /\ w \notin {RUBY_Qtrue, RUBY_Qundef}
    /\ w % Pow2(RUBY_SPECIAL_SHIFT) # RUBY_SYMBOL_FLAG

(* C28: for every word that is_immediate takes for an immediate at most   *)
(* one predicate of the chain holds; none holds, and rb_type reaches      *)
(* unreachable!(), exactly for the words with the low bits 100 that are   *)
(* neither true, undef nor a static symbol, and the runtime's encoding    *)
(* produces none of these: on a value of the runtime exactly one holds    *)
(* and rb_type does not panic                                             *)
C28_RuntimeImmediates ==
    last.op = "classify" =>
        /\ Cardinality(last.preds) <= 1
        /\ last.preds = {} <=> Unclassified(val.w)
        /\ last.ty = 0 - 1 <=> Unclassified(val.w)
        /\ val.w \in RuntimeImmediates =>
              Cardinality(last.preds) = 1 /\ last.ty # 0 - 1

C28_Witness ==
    /\ last.op = "classify"
    /\ val.w = 4
    /\ is_immediate(val.w)
    /\ last.preds = {}
    /\ last.ty = 0 - 1

(* C21: to_bool is false exactly for the nil and the false value and true *)
(* for every other value, the fixnum 0, symbols and heap objects among    *)
(* them; bool::try_convert never fails and gives the same truth value     *)
C21_Truthiness ==
    last.op = "to_bool" =>
        /\ last.res = (val.w \notin {RUBY_Qfalse, RUBY_Qnil})
        /\ last.conv.ok
        /\ last.conv.v = last.res

C21_Witness ==
    /\ last.op = "to_bool"
    /\ val.w = RUBY_Qnil
    /\ last.res = FALSE
    /\ last.conv.ok

----------------------------------------------------------------------------
(* GcSpec: BoxValue and Value::leak (src/value.rs) and the collector's     *)
(* registered roots                                                         *)

MaxBoxes == 2
MaxLeaks == 2

(* host addresses a Box allocation can get; one is free whenever fewer than *)
(* MaxBoxes boxes live; and the places a BoxValue itself can be moved to     *)
BoxAddrs == 1 .. (MaxBoxes + 1)
Places == 1 .. (MaxBoxes + 1)
GcValues == {HeapBase, HeapBase + 8}

(* rb_gc_register_address: the address is added to the runtime's list *)
rb_gc_register_address(list, addr) == <<addr>> \o list

(* rb_gc_unregister_address: the first entry with the address is removed *)
rb_gc_unregister_address(list, addr) ==
    IF \E i \in 1 .. Len(list) : list[i] = addr
    THEN LET k == CHOOSE i \in 1 .. Len(list) :
                     list[i] = addr /\ \A j \in 1 .. (i - 1) : list[j] # addr
         IN SubSeq(list, 1, k - 1) \o SubSeq(list, k + 1, Len(list))
    ELSE list

(* rb_gc_register_mark_object: the object is kept alive from now on *)
rb_gc_register_mark_object(objs, v) == Append(objs, v)

(* mutant: the Value is held inline, so its address is the BoxValue's own *)
BoxSlot_Inline(b) == b.at

(* self.0.as_mut() as *mut VALUE: the address of the boxed Value *)
BoxSlot(b) == b.ptr

(* BoxValue::new: the Value is boxed and the box's address registered; reg *)
(* remembers the address that was registered                                *)
BoxValue_new(v, a, at, list) ==
    LET b == [at |-> at, ptr |-> a, v |-> v, reg |-> 0]
    IN [box |-> [b EXCEPT !.reg = BoxSlot(b)],
        list |-> rb_gc_register_address(list, BoxSlot(b))]

(* Drop for BoxValue *)
BoxValue_drop(b, list) ==
    [unregistered |-> BoxSlot(b), list |-> rb_gc_unregister_address(list, BoxSlot(b))]

GcInit ==
    /\ inp = 0
    /\ val = NoVal
    /\ heap = BitHeap
    /\ errinfo = QNIL
    /\ pend = NoPend
    /\ last = NoLast
    /\ cnt = NoCnt
    /\ NoRoots
    /\ NoMemo
    /\ NoIter
    /\ NoBuild

BoxNew(v, a, at) ==
    /\ Cardinality(boxes) < MaxBoxes
    /\ \A b \in boxes : b.ptr # a /\ b.at # at
    /\ LET r == BoxValue_new(v, a, at, global_list)
       IN /\ boxes' = boxes \cup {r.box}
          /\ global_list' = r.list
    /\ last' = [op |-> "new"]
    /\ UNCHANGED <<INIT, VALUE, thr, iter, builder, cfg, heap, errinfo, pend, inp, val, cnt, mark_objects>>

(* the BoxValue is moved: returned, passed on or stored elsewhere *)
BoxMove(b, at) ==
    /\ b \in boxes
    /\ \A c \in boxes : c.at # at
    /\ boxes' = (boxes \ {b}) \cup {[b EXCEPT !.at = at]}
    /\ last' = [op |-> "move"]
    /\ UNCHANGED <<INIT, VALUE, thr, iter, builder, cfg, heap, errinfo, pend, inp, val, cnt, global_list, mark_objects>>

(* the Value in the box is replaced through AsMut / DerefMut *)
BoxSet(b, v) ==
    /\ b \in boxes
    /\ b.v # v
    /\ boxes' = (boxes \ {b}) \cup {[b EXCEPT !.v = v]}
    /\ last' = [op |-> "set"]
    /\ UNCHANGED <<INIT, VALUE, thr, iter, builder, cfg, heap, errinfo, pend, inp, val, cnt, global_list, mark_objects>>

BoxDrop(b) ==
    /\ b \in boxes
    /\ LET r == BoxValue_drop(b, global_list)
       IN /\ global_list' = r.list
          /\ last' = [op |-> "drop", registered |-> b.reg, unregistered |-> r.unregistered]
    /\ boxes' = boxes \ {b}
    /\ UNCHANGED <<INIT, VALUE, thr, iter, builder, cfg, heap, errinfo, pend, inp, val, cnt, mark_objects>>

(* Value::leak *)
Leak(v) ==
    /\ Len(mark_objects) < MaxLeaks
    /\ mark_objects' = rb_gc_register_mark_object(mark_objects, v)
    /\ last' = [op |-> "leak"]
    /\ UNCHANGED <<INIT, VALUE, thr, iter, builder, cfg, heap, errinfo, pend, inp, val, cnt, boxes, global_list>>

GcNext ==
    \/ \E v \in GcValues : \E a \in BoxAddrs : \E at \in Places : BoxNew(v, a, at)
    \/ \E b \in boxes : \E at \in Places : BoxMove(b, at)
    \/ \E b \in boxes : \E v \in GcValues : BoxSet(b, v)
    \/ \E b \in boxes : BoxDrop(b)
    \/ \E v \in GcValues : Leak(v)

GcSpec == GcInit /\ [][GcNext]_vars

Occurrences(list, x) == Cardinality({i \in 1 .. Len(list) : list[i] = x})

C18_Paired ==
    /\ \A b \in boxes : Occurrences(global_list, b.ptr) = 1
    /\ \A i \in 1 .. Len(global_list) : \E b \in boxes : b.ptr = global_list[i]
    /\ last.op = "drop" => last.unregistered = last.registered

C18_LeakKept ==
    /\ Len(mark_objects') >= Len(mark_objects)
    /\ \A i \in 1 .. Len(mark_objects) : mark_objects'[i] = mark_objects[i]

(* C18: over any sequence of BoxValue::new, moves and drops the address    *)
(* registered at creation is the one unregistered at drop, every live      *)
(* BoxValue's slot is registered exactly once, no dropped one's slot stays *)
(* registered, and what Value::leak registered is never unregistered       *)
C18_RootPairing == [](C18_Paired) /\ [][C18_LeakKept]_vars

C18_Witness ==
    /\ last.op = "drop"
    /\ last.registered = last.unregistered
    /\ Len(mark_objects) > 0
    /\ Cardinality(boxes) = 1
    /\ Len(global_list) = 1

----------------------------------------------------------------------------
(* DataSpec: DataTypeBuilder (src/typed_data.rs)                           *)

RUBY_TYPED_FREE_IMMEDIATELY == 1
RUBY_TYPED_WB_PROTECTED == 32

(* DataTypeBuilder::new *)
DataTypeBuilder_new(name) ==
    [name |-> name, mark |-> FALSE, size |-> FALSE, compact |-> FALSE,
     free_immediately |-> FALSE, wb_protected |-> FALSE]

(* bool::then(|| callback): Some(callback) or None *)
Callback(flag, f) == IF flag THEN f ELSE "None"

(* mutant: the mark callback is installed whether or not mark was called *)
DataTypeBuilder_build_AlwaysMark(b, c) ==
    [dmark |-> "extern_mark",
     dfree |-> "extern_free",
     dsize |-> Callback(b.size, "extern_size"),
     dcompact |-> IF c.ruby_gte_2_7 THEN Callback(b.compact, "extern_compact") ELSE "no field",
     flags |-> (IF b.free_immediately THEN RUBY_TYPED_FREE_IMMEDIATELY ELSE 0)
               + (IF b.wb_protected \/ ~b.mark THEN RUBY_TYPED_WB_PROTECTED ELSE 0)]

(* DataTypeBuilder::build; the dcompact field exists only when the crate is *)
(* built with cfg(ruby_gte_2_7)                                             *)
DataTypeBuilder_build(b, c) ==
    [dmark |-> Callback(b.mark, "extern_mark"),
     dfree |-> "extern_free",
     dsize |-> Callback(b.size, "extern_size"),
     dcompact |-> IF c.ruby_gte_2_7 THEN Callback(b.compact, "extern_compact") ELSE "no field",
     flags |-> (IF b.free_immediately THEN RUBY_TYPED_FREE_IMMEDIATELY ELSE 0)
               + (IF b.wb_protected \/ ~b.mark THEN RUBY_TYPED_WB_PROTECTED ELSE 0)]

(* error::bug_from_panic: the payload goes to the runtime's fatal bug    *)
(* handler, which ends the process and does not return                   *)
bug_from_panic(payload, msg) == [outcome |-> "bug", v |-> 0, msg |-> msg, payload |-> payload]

Returned(v) == [outcome |-> "returned", v |-> v, msg |-> "", payload |-> ""]

(* mutant: mark is called without catch_unwind *)
extern_mark_Uncaught(r) ==
    IF r.kind = "panic"
    THEN [outcome |-> "unwound", v |-> 0, msg |-> "", payload |-> r.payload]
    ELSE Returned(0)

(* DataTypeFunctions::extern_free, extern_mark, extern_size and          *)
(* extern_compact; r is what the implementation of free, mark, size or   *)
(* compact does                                                          *)
extern_free(r) ==
    IF catch_unwind(r).panicked
    THEN bug_from_panic(catch_unwind(r).payload, "panic in DataTypeFunctions::free")
    ELSE Returned(0)
extern_mark(r) ==
    IF catch_unwind(r).panicked
    THEN bug_from_panic(catch_unwind(r).payload, "panic in DataTypeFunctions::mark")
    ELSE Returned(0)
extern_size(r) ==
    IF catch_unwind(r).panicked
    THEN bug_from_panic(catch_unwind(r).payload, "panic in DataTypeFunctions::size")
    ELSE Returned(catch_unwind(r).inner.v)
extern_compact(r) ==
    IF catch_unwind(r).panicked
    THEN bug_from_panic(catch_unwind(r).payload, "panic in DataTypeFunctions::compact")
    ELSE Returned(0)

(* a wrapped host object, as Obj::wrap makes it: not frozen *)
DataObj == [flags |-> 0, class |-> "Pair"]
Obj_wrap(h) == [w |-> NextAddr(h), h |-> Alloc(h, DataObj)]

(* Value::freeze: rb_obj_freeze sets the freeze flag *)
Value_freeze(w, h) ==
    IF is_frozen(w, h) THEN h ELSE [h EXCEPT ![w].flags = @ + RUBY_FL_FREEZE]

(* the freeze keyword of clone: left out, nil, true or false *)
Keywords == {"absent", "nil", "true", "false"}

(* get_kwargs with the one optional keyword freeze, read as                  *)
(* Option<Option<bool>>: None when left out, Some(None) for nil, Some(Some(b)) *)
(* for a boolean b                                                           *)
get_kwargs(kw) ==
    CASE kw = "absent" -> None
      [] kw = "nil" -> Some(None)
      [] kw = "true" -> Some(Some(TRUE))
      [] OTHER -> Some(Some(FALSE))

(* Option::flatten *)
flatten(o) == IF o.some THEN o.x ELSE None

(* mutant: the clone is frozen whenever the source is *)
Dup_clone_CopiesFrozen(rbself, kw, h) ==
    LET clone == Obj_wrap(h)
    IN [res |-> Ok(clone.w),
        h |-> IF is_frozen(rbself, h) THEN Value_freeze(clone.w, clone.h) ELSE clone.h]

(* Dup::clone: Some(true) freezes the clone, None freezes it when the source *)
(* is frozen, Some(false) leaves it as wrapped                               *)
Dup_clone(rbself, kw, h) ==
    LET freeze == flatten(get_kwargs(kw))
        clone == Obj_wrap(h)
    IN [res |-> Ok(clone.w),
        h |-> IF (freeze.some /\ freeze.x) \/ (~freeze.some /\ is_frozen(rbself, h))
              THEN Value_freeze(clone.w, clone.h)
              ELSE clone.h]

(* what an implementation of free, mark, size or compact does *)
ImplOutcomes == {RetOk(0), RetOk(16), Panics("boom")}

(* the process has been ended by the bug handler *)
Aborted == last.op = "gc" /\ last.res.outcome = "bug"

DataInit ==
    /\ inp = 0
    /\ val = NoVal
    /\ heap = NoHeap
    /\ errinfo = QNIL
    /\ pend = NoPend
    /\ last = NoLast
    /\ cnt = NoCnt
    /\ NoRoots
    /\ NoMemo
    /\ NoIter
    /\ builder = NoBuilder
    /\ cfg \in [ruby_gte_2_7 : BOOLEAN, ruby_use_flonum : {TRUE}]

DataUnchanged ==
    UNCHANGED <<INIT, VALUE, thr, iter, heap, errinfo, pend, inp, val, cnt, boxes, global_list, mark_objects, cfg>>

BuilderNew(name) ==
    /\ builder = NoBuilder
    /\ ~Aborted
    /\ builder' = DataTypeBuilder_new(name)
    /\ last' = NoLast
    /\ DataUnchanged

BuilderMark ==
    /\ builder # NoBuilder
    /\ builder' = [builder EXCEPT !.mark = TRUE]
    /\ UNCHANGED last
    /\ DataUnchanged

BuilderSize ==
    /\ builder # NoBuilder
    /\ builder' = [builder EXCEPT !.size = TRUE]
    /\ UNCHANGED last
    /\ DataUnchanged

BuilderCompact ==
    /\ builder # NoBuilder
    /\ builder' = [builder EXCEPT !.compact = TRUE]
    /\ UNCHANGED last
    /\ DataUnchanged

BuilderFreeImmediately ==
    /\ builder # NoBuilder
    /\ builder' = [builder EXCEPT !.free_immediately = TRUE]
    /\ UNCHANGED last
    /\ DataUnchanged

BuilderWbProtected ==
    /\ builder # NoBuilder
    /\ builder' = [builder EXCEPT !.wb_protected = TRUE]
    /\ UNCHANGED last
    /\ DataUnchanged

(* build(self): the builder is consumed *)
BuilderBuild ==
    /\ builder # NoBuilder
    /\ last' = [op |-> "build", from |-> builder, ty |-> DataTypeBuilder_build(builder, cfg)]
    /\ builder' = NoBuilder
    /\ DataUnchanged

(* the collector calls a callback of the built data type on a wrapped    *)
(* object                                                                *)
GcCallback(cb, r) ==
    /\ last.op \in {"build", "gc"}
    /\ ~Aborted
    /\ cb \in {last.ty.dmark, last.ty.dfree, last.ty.dsize, last.ty.dcompact}
    /\ cb # "extern_size" => r.v = 0
    /\ last' = [op |-> "gc", from |-> last.from, ty |-> last.ty, cb |-> cb, impl |-> r,
                res |-> CASE cb = "extern_free" -> extern_free(r)
                          [] cb = "extern_mark" -> extern_mark(r)
                          [] cb = "extern_size" -> extern_size(r)
                          [] OTHER -> extern_compact(r)]
    /\ UNCHANGED builder
    /\ DataUnchanged

(* host data is wrapped in an object of the runtime *)
ObjWrap ==
    /\ ~Aborted
    /\ val = NoVal
    /\ Cardinality(DOMAIN heap) < MaxObjs - 1
    /\ heap' = Obj_wrap(heap).h
    /\ UNCHANGED <<builder, last, val>>
    /\ UNCHANGED <<INIT, VALUE, thr, iter, errinfo, pend, inp, cnt, boxes, global_list, mark_objects, cfg>>

(* obj.freeze on a wrapped object *)
ObjFreeze(a) ==
    /\ ~Aborted
    /\ val = NoVal
    /\ a \in DOMAIN heap
    /\ ~is_frozen(a, heap)
    /\ heap' = Value_freeze(a, heap)
    /\ UNCHANGED <<builder, last, val>>
    /\ UNCHANGED <<INIT, VALUE, thr, iter, errinfo, pend, inp, cnt, boxes, global_list, mark_objects, cfg>>

(* obj.clone, obj.clone(freeze: nil), obj.clone(freeze: true) or            *)
(* obj.clone(freeze: false) through Dup::clone                              *)
DupClone(a, kw) ==
    /\ ~Aborted
    /\ val = NoVal
    /\ a \in DOMAIN heap
    /\ CanAlloc
    /\ LET r == Dup_clone(a, kw, heap)
       IN /\ heap' = r.h
          /\ val' = [w |-> r.res.v, from |-> "clone", src |-> a, kw |-> kw,
                     src_frozen |-> is_frozen(a, heap)]
    /\ UNCHANGED <<builder, last>>
    /\ UNCHANGED <<INIT, VALUE, thr, iter, errinfo, pend, inp, cnt, boxes, global_list, mark_objects, cfg>>

DataNext ==
    \/ ObjWrap
    \/ \E a \in DOMAIN heap : ObjFreeze(a)
    \/ \E a \in DOMAIN heap : \E kw \in Keywords : DupClone(a, kw)
    \/ \E cb \in {"extern_free", "extern_mark", "extern_size", "extern_compact"} :
          \E r \in ImplOutcomes : GcCallback(cb, r)
    \/ \E name \in {"Point", "Temperature"} : BuilderNew(name)
    \/ BuilderMark
    \/ BuilderSize
    \/ BuilderCompact
    \/ BuilderFreeImmediately
    \/ BuilderWbProtected
    \/ BuilderBuild

DataSpec == DataInit /\ [][DataNext]_vars

Installed(cb) == cb \notin {"None", "no field"}

(* C19, as stated: build always installs dfree and installs the mark, size *)
(* and compact callbacks iff the builder method of that name was called    *)
C19_CallbacksAsRequested ==
    last.op = "build" =>
        /\ Installed(last.ty.dfree)
        /\ Installed(last.ty.dmark) <=> last.from.mark
        /\ Installed(last.ty.dsize) <=> last.from.size
        /\ Installed(last.ty.dcompact) <=> last.from.compact

(* C19, amended: build always installs dfree, installs the mark and size   *)
(* callbacks iff mark, size was called, and the compact callback iff       *)
(* compact was called and the crate is built for a runtime that has the    *)
(* compact slot (2.7 or later)                                              *)
C19_CallbacksAsBuilt ==
    last.op = "build" =>
        /\ last.ty.dfree = "extern_free"
        /\ Installed(last.ty.dmark) <=> last.from.mark
        /\ Installed(last.ty.dsize) <=> last.from.size
        /\ Installed(last.ty.dcompact) <=> (last.from.compact /\ cfg.ruby_gte_2_7)
        /\ (~last.from.mark /\ ~last.from.size /\ ~last.from.compact) =>
              /\ ~Installed(last.ty.dmark)
              /\ ~Installed(last.ty.dsize)
              /\ ~Installed(last.ty.dcompact)

C19_Witness ==
    /\ last.op = "build"
    /\ last.from.compact /\ ~last.from.mark /\ last.from.size
    /\ cfg.ruby_gte_2_7
    /\ last.ty.dcompact = "extern_compact"
    /\ last.ty.dmark = "None"

C29_GcCallbacksCatch ==
    last.op = "gc" =>
        /\ last.res.outcome # "unwound"
        /\ last.impl.kind = "panic" =>
              /\ last.res.outcome = "bug"
              /\ last.res.payload = last.impl.payload
        /\ last.impl.kind # "panic" =>
              /\ last.res.outcome = "returned"
              /\ last.cb = "extern_size" => last.res.v = last.impl.v

C29_Witness ==
    /\ last.op = "gc"
    /\ last.cb = "extern_mark"
    /\ last.impl.kind = "panic"
    /\ last.res.outcome = "bug"
    /\ last.res.msg = "panic in DataTypeFunctions::mark"

----------------------------------------------------------------------------
(* FloatSpec: Float and Flonum (src/float.rs, src/value.rs); an f64 is its *)
(* bit pattern, scaled to the width of the word                             *)

RotL3(v) == ((v * 8) % WordMod) + (v \div Pow2(WordBits - 3))
RotR3(v) == (v \div 8) + (v % 8) * Pow2(WordBits - 3)

(* the three exponent bits below the sign *)
FloBits3(n) == (n \div Pow2(WordBits - 4)) % 8
FlonumZero == Pow2(WordBits - 1) + RUBY_FLONUM_FLAG

(* the runtime's flonum encoding: exponents of the middle range are rotated *)
(* into the word, +0.0 has its own word, everything else has no encoding    *)
Flonumable(n) == (n # 3 * Pow2(WordBits - 4) /\ FloBits3(n) \in {3, 4}) \/ n = 0
FlonumEncode(n) ==
    IF n = 0 THEN FlonumZero
    ELSE (RotL3(n) - (RotL3(n) % (RUBY_FLONUM_MASK + 1))) + RUBY_FLONUM_FLAG
FlonumDecode(w) ==
    IF w = FlonumZero THEN 0
    ELSE RotR3((2 - (w \div Pow2(WordBits - 1))) + (w - (w % (RUBY_FLONUM_MASK + 1))))

FloatObj(n) == [flags |-> RUBY_T_FLOAT, num |-> n, class |-> "Float"]

(* rb_float_new_in_heap, rb_float_new and rb_float_value *)
rb_float_new_in_heap(n, h) == [w |-> NextAddr(h), h |-> Alloc(h, FloatObj(n))]
rb_float_new(n, h, c) ==
    IF c.ruby_use_flonum /\ Flonumable(n) THEN [w |-> FlonumEncode(n), h |-> h]
    ELSE rb_float_new_in_heap(n, h)
rb_float_value(w, h) == IF is_flonum(w) THEN FlonumDecode(w) ELSE h[w].num

(* Flonum::from_f64_impl: the flonum when n has one *)
Flonum_from_f64_impl(n) ==
    IF Flonumable(n) THEN NonZeroValue_new_unchecked(FlonumEncode(n)) ELSE NoNonZero

(* Ruby::float_from_f64 *)
float_from_f64(n, h, c) ==
    IF c.ruby_use_flonum
    THEN IF Flonum_from_f64_impl(n).some THEN [w |-> Flonum_from_f64_impl(n).w, h |-> h]
         ELSE rb_float_new_in_heap(n, h)
    ELSE rb_float_new_in_heap(n, h)

(* Flonum::from_f64: Ok(Flonum) or Err(RFloat) *)
Flonum_from_f64(n, h, c) ==
    LET r == rb_float_new(n, h, c)
    IN [ok |-> Flonum_from_value(r.w).some, w |-> r.w, h |-> r.h]

(* Float::to_f64 *)
Float_to_f64(w, h, c) ==
    IF c.ruby_use_flonum /\ Flonum_from_value(w).some THEN rb_float_value(w, h)
    ELSE rb_float_value(w, h)

FloatInit ==
    /\ inp \in Words
    /\ val = NoVal
    /\ heap = NoHeap
    /\ errinfo = QNIL
    /\ pend = NoPend
    /\ last = NoLast
    /\ cnt = NoCnt
    /\ NoRoots
    /\ NoMemo
    /\ NoIter
    /\ builder = NoBuilder
    /\ cfg \in [ruby_gte_2_7 : {TRUE}, ruby_use_flonum : BOOLEAN]

FloatUnchanged ==
    UNCHANGED <<INIT, VALUE, thr, iter, errinfo, pend, inp, cnt, boxes, global_list, mark_objects, builder, cfg>>

(* a Float is made from the f64 inp *)
FloatFromF64 ==
    /\ val = NoVal
    /\ LET r == float_from_f64(inp, heap, cfg)
       IN val' = [w |-> r.w, from |-> "f64"] /\ heap' = r.h
    /\ UNCHANGED last
    /\ FloatUnchanged

(* Flonum::from_f64(inp) *)
FlonumFromF64 ==
    /\ val = NoVal
    /\ LET r == Flonum_from_f64(inp, heap, cfg)
       IN /\ val' = [w |-> r.w, from |-> "f64"] /\ heap' = r.h
          /\ last' = [op |-> "flonum_from_f64", ok |-> r.ok]
    /\ FloatUnchanged

(* Float::from_value(val), then to_f64 of the Float *)
FloatToF64 ==
    /\ val # NoVal
    /\ last.op # "to_f64"
    /\ last' = [op |-> "to_f64", accepted |-> Float_from_value(val.w, heap).some,
                res |-> Float_to_f64(val.w, heap, cfg)]
    /\ UNCHANGED <<val, heap>>
    /\ FloatUnchanged

FloatNext ==
    \/ FloatFromF64
    \/ FlonumFromF64
    \/ FloatToF64

FloatSpec == FloatInit /\ [][FloatNext]_vars

(* n has a flonum: some flonum word stands for it *)
HasFlonum(n) == \E w \in Words : w % 4 = 2 /\ FlonumDecode(w) = n

(* C20: a Float made from an f64 n is the flonum of n where the build has   *)
(* flonums and one stands for n exactly, and a heap float holding n         *)
(* otherwise; Float::from_value accepts it and to_f64 gives back exactly n  *)
C20_FloatRoundTrip ==
    /\ val # NoVal =>
          /\ is_flonum(val.w) <=> (cfg.ruby_use_flonum /\ HasFlonum(inp))
          /\ ~is_flonum(val.w) =>
                /\ val.w \in DOMAIN heap
                /\ heap[val.w].flags % 32 = RUBY_T_FLOAT
                /\ heap[val.w].num = inp
    /\ last.op = "flonum_from_f64" => (last.ok <=> is_flonum(val.w))
    /\ last.op = "to_f64" => last.accepted /\ last.res = inp

C20_Witness ==
    /\ last.op = "to_f64"
    /\ inp = 3 * Pow2(WordBits - 4)
    /\ cfg.ruby_use_flonum
    /\ ~is_flonum(val.w)
    /\ last.res = inp

----------------------------------------------------------------------------
(* MemoSpec: one memoize! site (src/lib.rs) run by several threads          *)

MaxThreads == 3
MaxRuns == 2
Threads == 1 .. MaxThreads

(* mutant: a test of the static in place of the Once *)
Once_call_once_Unsynchronised(state) ==
    CASE state = "complete" -> "skip"
      [] OTHER -> "run"

(* std::sync::Once::call_once, by the state of the Once: the first caller  *)
(* runs the closure, a caller during the run blocks, a caller after it     *)
(* skips the closure, a caller after a panicked run panics                 *)
Once_call_once(state) ==
    CASE state = "incomplete" -> "run"
      [] state = "running" -> "block"
      [] state = "complete" -> "skip"
      [] OTHER -> "panic"

(* VALUE.as_ref().unwrap(): a reference to the static and what it holds *)
VALUE_as_ref_unwrap(v) ==
    IF v.some THEN [pc |-> "done", ret |-> Some([ref |-> "VALUE", x |-> v.x])]
    ELSE [pc |-> "panicked", ret |-> None]

Idle == [pc |-> "idle", ret |-> None, tmp |-> 0, runs |-> 0]

MemoInit ==
    /\ INIT = "incomplete"
    /\ VALUE = None
    /\ thr = [t \in Threads |-> Idle]
    /\ inp = 0
    /\ val = NoVal
    /\ heap = NoHeap
    /\ errinfo = QNIL
    /\ pend = NoPend
    /\ last = NoLast
    /\ cnt = NoCnt
    /\ NoRoots
    /\ NoIter
    /\ NoBuild

MemoUnchanged ==
    UNCHANGED <<heap, errinfo, pend, inp, val, last, boxes, global_list, mark_objects,
                builder, cfg, iter>>

(* thread t reaches the memoize! site *)
MemoEnter(t) ==
    /\ thr[t].pc \in {"idle", "done"}
    /\ thr[t].runs < MaxRuns
    /\ thr' = [thr EXCEPT ![t] = [pc |-> "call_once", ret |-> None, tmp |-> 0,
                                  runs |-> thr[t].runs + 1]]
    /\ UNCHANGED <<INIT, VALUE, cnt>>
    /\ MemoUnchanged

(* INIT.call_once(..) of thread t *)
MemoCallOnce(t) ==
    /\ thr[t].pc = "call_once"
    /\ LET d == Once_call_once(INIT)
       IN /\ d # "block"
          /\ thr' = [thr EXCEPT ![t].pc = CASE d = "run" -> "closure"
                                            [] d = "skip" -> "read"
                                            [] OTHER -> "panicked"]
          /\ INIT' = IF d = "run" THEN "running" ELSE INIT
    /\ UNCHANGED <<VALUE, cnt>>
    /\ MemoUnchanged

(* the closure of thread t evaluates the expression: each evaluation gives *)
(* a value of its own, or panics and poisons the Once                      *)
MemoEval(t, panics) ==
    /\ thr[t].pc = "closure"
    /\ cnt' = [cnt EXCEPT !.calls = cnt.calls + 1]
    /\ IF panics
       THEN /\ thr' = [thr EXCEPT ![t].pc = "panicked"]
            /\ INIT' = "poisoned"
       ELSE /\ thr' = [thr EXCEPT ![t].pc = "store", ![t].tmp = cnt.calls + 1]
            /\ UNCHANGED INIT
    /\ UNCHANGED VALUE
    /\ MemoUnchanged

(* VALUE = Some(..) in the closure of thread t *)
MemoStore(t) ==
    /\ thr[t].pc = "store"
    /\ VALUE' = Some(thr[t].tmp)
    /\ thr' = [thr EXCEPT ![t].pc = "finish"]
    /\ UNCHANGED <<INIT, cnt>>
    /\ MemoUnchanged

(* the closure of thread t returns and the Once completes *)
MemoFinish(t) ==
    /\ thr[t].pc = "finish"
    /\ INIT' = "complete"
    /\ thr' = [thr EXCEPT ![t].pc = "read"]
    /\ UNCHANGED <<VALUE, cnt>>
    /\ MemoUnchanged

(* VALUE.as_ref().unwrap() of thread t *)
MemoRead(t) ==
    /\ thr[t].pc = "read"
    /\ LET r == VALUE_as_ref_unwrap(VALUE)
       IN thr' = [thr EXCEPT ![t].pc = r.pc, ![t].ret = r.ret]
    /\ UNCHANGED <<INIT, VALUE, cnt>>
    /\ MemoUnchanged

MemoNext ==
    \/ \E t \in Threads : MemoEnter(t)
    \/ \E t \in Threads : MemoCallOnce(t)
    \/ \E t \in Threads : \E panics \in BOOLEAN : MemoEval(t, panics)
    \/ \E t \in Threads : MemoStore(t)
    \/ \E t \in Threads : MemoFinish(t)
    \/ \E t \in Threads : MemoRead(t)

MemoSpec == MemoInit /\ [][MemoNext]_vars

(* C22: over any executions of one memoize! site by several threads the    *)
(* expression is evaluated at most once, no execution reads the static     *)
(* before the initialisation has completed, and every execution that       *)
(* returns gives a reference to the same stored value                      *)
C22_MemoizeOnce ==
    /\ cnt.calls <= 1
    /\ \A t \in Threads :
          /\ thr[t].pc = "read" => INIT = "complete" /\ VALUE.some
          /\ thr[t].pc = "done" => thr[t].ret = Some([ref |-> "VALUE", x |-> VALUE.x])
          /\ thr[t].pc = "panicked" => ~thr[t].ret.some
    /\ \A t, u \in Threads :
          thr[t].pc = "done" /\ thr[u].pc = "done" => thr[t].ret = thr[u].ret

C22_Witness ==
    /\ \A t \in Threads : thr[t].pc = "done" /\ thr[t].runs = MaxRuns
    /\ cnt.calls = 1
    /\ VALUE = Some(1)

----------------------------------------------------------------------------
(* HashSpec: RHash::foreach (src/r_hash.rs) over a hash the runtime        *)
(* enumerates                                                               *)

MaxEntries == 3

(* what the user's closure does with an entry *)
Behaviours == {"Continue", "Stop", "Delete", "Err", "Panic"}

(* enum ForEach, as the c_int the runtime reads *)
ForEach == [Continue |-> 0, Stop |-> 1, Delete |-> 2]

EntryErr(k) == [class |-> "ArgumentError", msg |-> <<"e1", "e2", "e3", "e4", "e5">>[k],
                via |-> "error", state |-> 0]

(* the user's closure on entry k: Ok(ForEach), Err(e) or a panic *)
func(beh, k) ==
    CASE beh[k] = "Err" -> [kind |-> "err", v |-> 0, e |-> EntryErr(k)]
      [] beh[k] = "Panic" -> [kind |-> "panic", v |-> 0, e |-> NoErr]
      [] OTHER -> [kind |-> "ok", v |-> ForEach[beh[k]], e |-> NoErr]

(* mutant: an Err is kept but the enumeration goes on *)
foreach_closure_ContinuesOnErr(r, res) ==
    IF r.kind = "ok" THEN [ret |-> r.v, res |-> res]
    ELSE [ret |-> ForEach.Continue, res |-> Err(r.e)]

(* the closure foreach hands to base_foreach: Ok(v) is v, Err(e) is kept *)
(* in res and stops the enumeration                                      *)
foreach_closure(r, res) ==
    IF r.kind = "ok" THEN [ret |-> r.v, res |-> res]
    ELSE [ret |-> ForEach.Stop, res |-> Err(r.e)]

(* a panic that reaches the end of an extern "C" fn which catches nothing: *)
(* the build either aborts the process there or lets the unwinding go on   *)
(* into the caller's frames                                                *)
ExternCUnwind == {"aborted", "unwound"}

(* base_foreach's iter, the extern "C" callback: the closure is called and *)
(* its ForEach handed back; a panic of the closure is not caught           *)
base_foreach_iter(r, res) ==
    IF r.kind = "panic" THEN [outcomes |-> ExternCUnwind, ret |-> 0, res |-> res]
    ELSE [outcomes |-> {"returned"}, ret |-> foreach_closure(r, res).ret,
          res |-> foreach_closure(r, res).res]

HashInit ==
    /\ iter = [state |-> "none"]
    /\ inp = 0
    /\ val = NoVal
    /\ heap = NoHeap
    /\ errinfo = QNIL
    /\ pend = NoPend
    /\ last = NoLast
    /\ cnt = NoCnt
    /\ NoRoots
    /\ NoMemo
    /\ NoBuild

HashUnchanged ==
    UNCHANGED <<heap, errinfo, pend, inp, val, cnt, boxes, global_list, mark_objects,
                builder, cfg, INIT, VALUE, thr>>

(* hash.foreach(func) on a hash of n entries: res = Ok(()), and the        *)
(* runtime starts rb_hash_foreach under protect                            *)
ForeachCall(n, beh) ==
    /\ iter.state = "none"
    /\ iter' = [state |-> "enumerating", n |-> n, beh |-> beh, pos |-> 0, visited |-> <<>>,
                deleted |-> {}, res |-> Ok(0)]
    /\ last' = NoLast
    /\ HashUnchanged

(* rb_hash_foreach calls iter on the next entry and acts on what it hands *)
(* back: on to the next entry, stop, or delete the entry and go on        *)
IterCallback ==
    /\ iter.state = "enumerating"
    /\ iter.pos < iter.n
    /\ LET k == iter.pos + 1
           c == base_foreach_iter(func(iter.beh, k), iter.res)
       IN \E o \in c.outcomes :
             iter' = [iter EXCEPT
                        !.pos = k,
                        !.visited = Append(iter.visited, k),
                        !.res = c.res,
                        !.deleted = IF o = "returned" /\ c.ret = ForEach.Delete
                                    THEN iter.deleted \cup {k} ELSE iter.deleted,
                        !.state = CASE o # "returned" -> o
                                    [] c.ret = ForEach.Stop -> "stopped"
                                    [] OTHER -> "enumerating"]
    /\ UNCHANGED last
    /\ HashUnchanged

(* the runtime raises during the enumeration *)
RuntimeRaise ==
    /\ iter.state = "enumerating"
    /\ iter' = [iter EXCEPT !.state = "raised"]
    /\ UNCHANGED last
    /\ HashUnchanged

(* rb_hash_foreach is over; protect reports it, base_foreach passes an Err *)
(* on with `?` and foreach returns res                                     *)
ForeachReturn ==
    /\ \/ iter.state \in {"stopped", "raised"}
       \/ iter.state = "enumerating" /\ iter.pos = iter.n
    /\ LET p == protect(IF iter.state = "raised"
                        THEN Raises("RuntimeError", "rehash during iteration")
                        ELSE Completes(QNIL))
       IN last' = [op |-> "foreach",
                   res |-> IF p.state # 0 THEN Err(ProtectErr(p)) ELSE iter.res]
    /\ iter' = [iter EXCEPT !.state = "returned"]
    /\ HashUnchanged

(* the caller is done with the result *)
ForeachDone ==
    /\ iter.state = "returned"
    /\ iter' = [state |-> "none"]
    /\ last' = NoLast
    /\ HashUnchanged

HashNext ==
    \/ /\ iter.state = "none"
       /\ \E n \in 0 .. MaxEntries : \E beh \in [1 .. n -> Behaviours] : ForeachCall(n, beh)
    \/ IterCallback
    \/ RuntimeRaise
    \/ ForeachReturn
    \/ ForeachDone

HashSpec == HashInit /\ [][HashNext]_vars

(* the entries at which the closure gave Err *)
ErrAt(it) == {k \in 1 .. Len(it.visited) : it.beh[it.visited[k]] = "Err"}

(* C25: a panic of the closure given to foreach, while the runtime is      *)
(* enumerating the hash, does not unwind out of the extern "C" callback    *)
(* into the runtime's frames: it is stopped at the callback                *)
C25_PanicStoppedAtCallback ==
    iter.state # "unwound"

(* C26: foreach calls the closure once per entry in the runtime's order,   *)
(* neither reordered nor buffered; once the closure gives Err(e) the       *)
(* runtime is told to stop, no later entry is visited and foreach returns  *)
(* Err(e); foreach returns Ok only when no call gave Err and the runtime   *)
(* did not raise                                                           *)
C26_ForeachOrderAndStop ==
    iter.state # "none" =>
        /\ iter.visited = [k \in 1 .. iter.pos |-> k]
        /\ \A k \in 1 .. Len(iter.visited) :
              iter.beh[k] = "Err" => k = Len(iter.visited) /\ iter.state # "enumerating"
        /\ iter.state = "returned" =>
              /\ \A k \in ErrAt(iter) : last.res = Err(EntryErr(k))
              /\ last.res.ok => ErrAt(iter) = {} /\ last.res.e.via # "exception"
              /\ (ErrAt(iter) = {} /\ last.res.e.via # "exception") => last.res.ok

C26_Witness ==
    /\ iter.state = "returned"
    /\ iter.n = 3
    /\ iter.beh = <<"Continue", "Err", "Continue">>
    /\ iter.visited = <<1, 2>>
    /\ last.res = Err(EntryErr(2))

====
